---------------------------- MODULE Spec2Model ----------------------------
(***************************************************************************)
(* Model of the decision logic of vsem-svoim/base-app-layer:               *)
(*   - the business rules of the data_ingestion_orchestrator DAG           *)
(*     (priority classification, source selection, SLA deadline),          *)
(*   - a run of the data_ingestion_orchestrator DAG under Airflow's        *)
(*     trigger rules and retry handling,                                   *)
(*   - a run of the gitops_platform_deployment DAG,                        *)
(*   - the suite runners and exception handlers of the capability and      *)
(*     Kubernetes integration testers.                                     *)
(* Each part has its own specification over its own variables; the other   *)
(* variables stay at their idle values.                                    *)
(***************************************************************************)
EXTENDS Integers, Sequences, FiniteSets, TLC

VARIABLES
    \* ---- business rules applied as functions (data_ingestion_orchestrator.py)
    current_time,       \* datetime.now(): [day, hour, minute], day 0 = Monday
    business_context,   \* the value xcom_pull hands to select_data_sources
    priority_result,    \* return value of determine_business_priority
    selected_sources,   \* return value of select_data_sources
    sla_deadline,       \* [source, deadline]: the SLA deadline last computed for a source
    applied,            \* the functions applied so far
    \* ---- a DAG run under Airflow (both DAGs)
    ti_state,           \* task id -> state of its task instance
    try_number,         \* task id -> attempts made so far
    retry_wait,         \* task id -> minutes waited before the next attempt
    argo_failures,      \* non-zero exits of 'argo submit' seen in this run
    return_value,       \* task id -> what its callable returned (XCom)
    last_attempt,       \* the last attempt of a task that invokes kubectl
    health_checks,      \* iterations of the continuous_health_check loop started in this run
    \* ---- the testers (testing/scripts)
    tester,             \* the tester class that was instantiated
    component,          \* the component the tester belongs to
    k8s_apps_v1,        \* KubernetesIntegrationTester: the API client was set up
    deployments_response, \* what list_namespaced_deployment(self.namespace) does
    storage_cluster,    \* StorageCapabilityTester: what the cluster answers, per workload
    storage_run,        \* StorageCapabilityTester.run_comprehensive_tests: where the coroutine is
    config,             \* self.config, as _load_config returned it
    overall_results,    \* run_comprehensive_tests: suite name -> entry, in insertion order
    report,             \* what run_comprehensive_tests returned
    last_call,          \* the last tester operation called: [operation, caught, returned]
    scaling,            \* test_pod_scaling: where the coroutine is, and its local variables
    scale_requests      \* the replica counts patch_namespaced_deployment_scale was sent

rulesVars == <<current_time, business_context, priority_result,
               selected_sources, sla_deadline, applied>>

runVars == <<ti_state, try_number, retry_wait, argo_failures,
             return_value, last_attempt, health_checks>>

gitopsVars == <<return_value, last_attempt, health_checks>>

scalingVars == <<scaling, scale_requests>>

testerVars == <<tester, component, k8s_apps_v1, deployments_response, storage_cluster,
                storage_run,
                config, overall_results, report, last_call, scalingVars>>

\* what a call of a tester operation leaves alone
\* what a step of the storage run leaves alone
storageSetup == <<tester, component, k8s_apps_v1, deployments_response,
                  storage_cluster, config>>

testerSetup == <<storageSetup, storage_run>>

vars == <<rulesVars, runVars, testerVars>>

(***************************************************************************)
(* BUSINESS_CONFIG                                                         *)
(***************************************************************************)
market_data_sources ==
    << [name |-> "bloomberg_api", priority |-> "critical", sla_minutes |-> 5],
       [name |-> "reuters_api",   priority |-> "high",     sla_minutes |-> 10],
       [name |-> "nyse_feed",     priority |-> "high",     sla_minutes |-> 15] >>

reference_data_sources ==
    << [name |-> "master_securities_db",  priority |-> "medium", sla_minutes |-> 60],
       [name |-> "corporate_actions_api", priority |-> "medium", sla_minutes |-> 120] >>

alternative_data_sources ==
    << [name |-> "social_sentiment_api", priority |-> "low", sla_minutes |-> 240],
       [name |-> "satellite_imagery",    priority |-> "low", sla_minutes |-> 480] >>

\* 'business_hours': market_open '09:00', market_close '16:00' (minutes of day)
market_open  == [hour |-> 9,  minute |-> 0]
market_close == [hour |-> 16, minute |-> 0]

retry_policies ==
    [critical |-> [max_retries |-> 5, retry_delay_minutes |-> 1],
     high     |-> [max_retries |-> 3, retry_delay_minutes |-> 5],
     medium   |-> [max_retries |-> 2, retry_delay_minutes |-> 15],
     low      |-> [max_retries |-> 1, retry_delay_minutes |-> 60]]

\* market + reference + alternative, the concatenation the code builds twice
all_sources ==
    market_data_sources \o reference_data_sources \o alternative_data_sources

\* [source['name'] for source in seq]
Names(seq) == [i \in 1..Len(seq) |-> seq[i].name]

SeqToSet(seq) == {seq[i] : i \in 1..Len(seq)}

SourceNames == SeqToSet(Names(all_sources))

\* Python's None
None == "None"

(***************************************************************************)
(* determine_business_priority: reads only the hour and the weekday of     *)
(* datetime.now().                                                         *)
(***************************************************************************)
\* a classification that tests the hour before the weekday
determine_business_priority_hour_first(now) ==
    IF now.hour >= 9 /\ now.hour <= 16
    THEN "market_hours_critical"
    ELSE IF now.day % 7 >= 5
         THEN "weekend_maintenance"
         ELSE "off_hours_standard"

determine_business_priority(now) ==
    IF now.hour >= 9 /\ now.hour <= 16 /\ now.day % 7 < 5
    THEN "market_hours_critical"
    ELSE IF now.day % 7 >= 5
         THEN "weekend_maintenance"
         ELSE "off_hours_standard"

(***************************************************************************)
(* select_data_sources: the list built for the pulled business context.    *)
(***************************************************************************)
IsCriticalOrHigh(source) == source.priority \in {"critical", "high"}

\* a variant that keeps only the critical market-data sources during market hours
select_data_sources_critical_only(ctx) ==
    IF ctx = "market_hours_critical"
    THEN Names(SelectSeq(market_data_sources, LAMBDA s : s.priority = "critical"))
         \o Names(reference_data_sources)
    ELSE IF ctx = "off_hours_standard"
         THEN Names(all_sources)
         ELSE IF ctx = "weekend_maintenance"
              THEN Names(alternative_data_sources)
              ELSE << >>

select_data_sources(ctx) ==
    IF ctx = "market_hours_critical"
    THEN Names(SelectSeq(market_data_sources, IsCriticalOrHigh))
         \o Names(reference_data_sources)
    ELSE IF ctx = "off_hours_standard"
         THEN Names(all_sources)
         ELSE IF ctx = "weekend_maintenance"
              THEN Names(alternative_data_sources)
              ELSE << >>

(***************************************************************************)
(* calculate_sla_deadline                                                  *)
(***************************************************************************)
MinutesPerDay == 24 * 60

\* datetime + timedelta(minutes=m), on [day, hour, minute]
AddMinutes(t, m) ==
    LET total == (t.day * 24 + t.hour) * 60 + t.minute + m
    IN  [day    |-> total \div MinutesPerDay,
         hour   |-> (total % MinutesPerDay) \div 60,
         minute |-> total % 60]

ToMinutes(t) == (t.day * 24 + t.hour) * 60 + t.minute

\* (s for s in all_sources if s['name'] == source_name): next() takes the
\* first match, or None when there is none
source_config(source_name) ==
    SelectSeq(all_sources, LAMBDA s : s.name = source_name)

\* a variant that rounds the halved SLA to the nearest minute, halves up
IntOfHalfRounded(sla_minutes) == (sla_minutes + 1) \div 2

\* int(sla_minutes * 0.5): the product is exact in binary floating point and
\* int() truncates it toward zero
IntOfHalf(sla_minutes) == sla_minutes \div 2

\* int(sla_minutes * 2.0)
IntOfDouble(sla_minutes) == sla_minutes * 2

adjusted_sla_minutes(sla_minutes, ctx) ==
    IF ctx = "market_hours_critical"
    THEN IntOfHalf(sla_minutes)
    ELSE IF ctx = "weekend_maintenance"
         THEN IntOfDouble(sla_minutes)
         ELSE sla_minutes

calculate_sla_deadline(source_name, ctx, now) ==
    IF source_config(source_name) = << >>
    THEN AddMinutes(now, 60)
    ELSE AddMinutes(now,
             adjusted_sla_minutes(Head(source_config(source_name)).sla_minutes, ctx))

(***************************************************************************)
(* Specification of the business rules: the inputs are drawn in the        *)
(* initial state and each function is applied to them.                     *)
(***************************************************************************)
Weekdays == 0..6
Hours == 0..23
Minutes == {0, 30}

Clocks == [day : Weekdays, hour : Hours, minute : Minutes]

Contexts == {"market_hours_critical", "off_hours_standard", "weekend_maintenance"}

\* what xcom_pull can hand over: a bucket, nothing, or some other string
ContextInputs == Contexts \cup {None, "unexpected_context"}

SourceInputs == SourceNames \cup {"unknown_source"}

NoTime == [day |-> 0, hour |-> 0, minute |-> 0]

RulesIdle ==
    /\ current_time = NoTime
    /\ business_context = None
    /\ priority_result = None
    /\ selected_sources = << >>
    /\ sla_deadline = [source |-> None, deadline |-> NoTime]
    /\ applied = {}

NoAttempt ==
    [task |-> None, calls |-> << >>, stdout |-> << >>, result |-> None, raised |-> None]

NoConfig == [top |-> None, sections |-> << >>]

NoReport ==
    [test_execution_summary |->
         [total_test_suites |-> 0, successful_suites |-> 0, failed_suites |-> 0],
     detailed_results |-> << >>]

NoCall == [operation |-> None, caught |-> None, returned |-> << >>]

NoResponse == [raised |-> None, value |-> << >>]

NoStorageCluster == [config_loads |-> FALSE, agents |-> << >>, models |-> << >>]

NoStorageRun == [pc |-> "tests", sleeps_left |-> 0, stages_completed |-> 0]

NoCluster ==
    /\ k8s_apps_v1 = FALSE
    /\ deployments_response = NoResponse
    /\ storage_cluster = NoStorageCluster
    /\ storage_run = NoStorageRun

NoScaling ==
    [pc |-> "idle", deployment |-> None, original_replicas |-> 0,
     target_replicas |-> 0, elapsed |-> 0, ready_replicas |-> 0,
     wait_outcome |-> None, scale_up_time |-> 0]

ScalingIdle ==
    /\ scaling = NoScaling
    /\ scale_requests = << >>

TestersIdle ==
    /\ tester = None
    /\ component = None
    /\ NoCluster
    /\ ScalingIdle
    /\ config = NoConfig
    /\ overall_results = << >>
    /\ report = NoReport
    /\ last_call = NoCall

GitopsIdle ==
    /\ return_value = << >>
    /\ last_attempt = NoAttempt
    /\ health_checks = 0

RunIdle ==
    /\ ti_state = << >>
    /\ try_number = << >>
    /\ retry_wait = << >>
    /\ argo_failures = 0
    /\ GitopsIdle

InitRules ==
    /\ RunIdle
    /\ TestersIdle
    /\ current_time \in Clocks
    /\ business_context \in ContextInputs
    /\ priority_result = None
    /\ selected_sources = << >>
    /\ sla_deadline = [source |-> None, deadline |-> NoTime]
    /\ applied = {}

CallDeterminePriority ==
    /\ "determine_business_priority" \notin applied
    /\ priority_result' = determine_business_priority(current_time)
    /\ applied' = applied \cup {"determine_business_priority"}
    /\ UNCHANGED <<current_time, business_context, selected_sources, sla_deadline>>
    /\ UNCHANGED <<runVars, testerVars>>

CallSelectSources ==
    /\ "select_data_sources" \notin applied
    /\ selected_sources' = select_data_sources(business_context)
    /\ applied' = applied \cup {"select_data_sources"}
    /\ UNCHANGED <<current_time, business_context, priority_result, sla_deadline>>
    /\ UNCHANGED <<runVars, testerVars>>

CallCalculateDeadline(source_name) ==
    /\ "calculate_sla_deadline" \notin applied
    /\ sla_deadline' =
           [source   |-> source_name,
            deadline |-> calculate_sla_deadline(source_name, business_context,
                                                current_time)]
    /\ applied' = applied \cup {"calculate_sla_deadline"}
    /\ UNCHANGED <<current_time, business_context, priority_result, selected_sources>>
    /\ UNCHANGED <<runVars, testerVars>>

NextRules ==
    \/ CallDeterminePriority
    \/ CallSelectSources
    \/ \E s \in SourceInputs : CallCalculateDeadline(s)

SpecRules == InitRules /\ [][NextRules]_vars

(***************************************************************************)
(* Claims about the business rules (checked under SpecRules)               *)
(***************************************************************************)
Did(f) == f \in applied

MinuteOfDay(t) == t.hour * 60 + t.minute

IsWeekday(t) == t.day % 7 < 5

\* 09:00 <= t <= 16:00, the window BUSINESS_CONFIG['business_hours'] states
InMarketWindow(t) ==
    /\ MinuteOfDay(t) >= MinuteOfDay(market_open)
    /\ MinuteOfDay(t) <= MinuteOfDay(market_close)

\* C1: determine_business_priority returns 'market_hours_critical' exactly on
\* Monday-Friday at 09:00 <= t <= 16:00, 'weekend_maintenance' exactly on
\* Saturday and Sunday, and 'off_hours_standard' at every other weekday time,
\* so a weekday time later than 16:00 is off-hours.
C1_PriorityFollowsMarketWindow ==
    Did("determine_business_priority") =>
        /\ (priority_result = "market_hours_critical")
               <=> (IsWeekday(current_time) /\ InMarketWindow(current_time))
        /\ (priority_result = "weekend_maintenance") <=> ~IsWeekday(current_time)
        /\ (priority_result = "off_hours_standard")
               <=> (IsWeekday(current_time) /\ ~InMarketWindow(current_time))

\* twice the multiplier of a business context: 0.5, 2.0, otherwise 1.0
MultiplierTwice(ctx) ==
    IF ctx = "market_hours_critical" THEN 1
    ELSE IF ctx = "weekend_maintenance" THEN 4
    ELSE 2

BaseSla(source_name) ==
    (CHOOSE s \in SeqToSet(all_sources) : s.name = source_name).sla_minutes

\* the offset of the last computed deadline from now, in minutes
DeadlineOffset == ToMinutes(sla_deadline.deadline) - ToMinutes(current_time)

DeadlineOfConfiguredSource ==
    Did("calculate_sla_deadline") /\ sla_deadline.source \in SourceNames

\* C2 (as claimed): for each of the seven sources and every context the
\* deadline is now + sla_minutes * multiplier minutes, exactly, with no loss
\* from rounding.
C2_DeadlineOffsetExact ==
    DeadlineOfConfiguredSource =>
        2 * DeadlineOffset = BaseSla(sla_deadline.source) * MultiplierTwice(business_context)

\* C2 (amended): the deadline is now + int(sla_minutes * multiplier) minutes:
\* the product truncated to whole minutes. It equals sla_minutes * multiplier
\* whenever that is a whole number, and is half a minute short of it otherwise
\* (base 5 gives 2 and base 15 gives 7 during market hours).
C2_DeadlineOffsetTruncated ==
    DeadlineOfConfiguredSource =>
        LET twice == BaseSla(sla_deadline.source) * MultiplierTwice(business_context)
        IN  /\ twice % 2 = 0 => 2 * DeadlineOffset = twice
            /\ twice % 2 = 1 => 2 * DeadlineOffset = twice - 1
            /\ (sla_deadline.source = "bloomberg_api"
                /\ business_context = "market_hours_critical") => DeadlineOffset = 2
            /\ (sla_deadline.source = "nyse_feed"
                /\ business_context = "market_hours_critical") => DeadlineOffset = 7

\* C2 witness: the deadline of bloomberg_api (base 5) was computed for a
\* market-hours context late on a Sunday and falls two whole minutes later,
\* not two and a half.
C2_WitnessTruncatedDeadline ==
    /\ DeadlineOfConfiguredSource
    /\ sla_deadline.source = "bloomberg_api"
    /\ business_context = "market_hours_critical"
    /\ current_time = [day |-> 6, hour |-> 23, minute |-> 30]
    /\ sla_deadline.deadline = [day |-> 6, hour |-> 23, minute |-> 32]

\* C3: select_data_sources is a lookup on the business context: the critical
\* and high market-data sources followed by the reference-data sources during
\* market hours, all seven sources off hours, the alternative-data sources on
\* weekends, and the empty list for any other or missing context.
C3_SelectionIsLookup ==
    Did("select_data_sources") =>
        /\ business_context = "market_hours_critical" =>
               selected_sources = <<"bloomberg_api", "reuters_api", "nyse_feed",
                                    "master_securities_db", "corporate_actions_api">>
        /\ business_context = "off_hours_standard" =>
               selected_sources = <<"bloomberg_api", "reuters_api", "nyse_feed",
                                    "master_securities_db", "corporate_actions_api",
                                    "social_sentiment_api", "satellite_imagery">>
        /\ business_context = "weekend_maintenance" =>
               selected_sources = <<"social_sentiment_api", "satellite_imagery">>
        /\ business_context \notin Contexts => selected_sources = << >>

\* C3 witness: the market-hours selection has been computed and holds five
\* sources, and no alternative-data source.
C3_WitnessMarketHoursSelection ==
    /\ Did("select_data_sources")
    /\ business_context = "market_hours_critical"
    /\ Len(selected_sources) = 5
    /\ selected_sources[1] = "bloomberg_api"
    /\ "satellite_imagery" \notin SeqToSet(selected_sources)

\* C12: the classification is total and exclusive: for every weekday 0..6
\* and hour 0..23 determine_business_priority returns one of the three bucket
\* names, and on Saturday and Sunday (weekday() >= 5) it returns
\* 'weekend_maintenance' at every hour, 9 to 16 included; from Monday to
\* Friday it never does.
C12_ClassificationTotalWeekendFirst ==
    Did("determine_business_priority") =>
        /\ priority_result \in Contexts
        /\ Cardinality({c \in Contexts : priority_result = c}) = 1
        /\ current_time.day >= 5 => priority_result = "weekend_maintenance"
        /\ current_time.day < 5 => priority_result # "weekend_maintenance"

\* Saturday 12:00 was classified as weekend maintenance
C12_WitnessSaturdayNoon ==
    /\ Did("determine_business_priority")
    /\ current_time.day = 5
    /\ current_time.hour = 12
    /\ priority_result = "weekend_maintenance"

(***************************************************************************)
(* create_argo_workflow_task: the parameters of the 'argo submit' command  *)
(* of a source's pod (SpecSubmission). The command is an f-string built    *)
(* when the DAG file is parsed; its $(python3 -c ...) runs in the pod.     *)
(***************************************************************************)
\* --parameter sla-deadline="$(python3 -c "... datetime.now() +
\* timedelta(minutes={BUSINESS_CONFIG['retry_policies'][priority]
\* ['retry_delay_minutes']}) ...")"
submitted_sla_deadline(priority, now) ==
    AddMinutes(now, retry_policies[priority].retry_delay_minutes)

\* priority = source['priority'] in the loop that creates the tasks
PriorityOf(source_name) == Head(source_config(source_name)).priority

\* the task created for each source of the three lists, with
\* priority = source['priority']; business_context is what
\* ti.xcom_pull(task_ids='determine_business_priority') renders
InitSubmission ==
    /\ RunIdle
    /\ TestersIdle
    /\ current_time \in Clocks
    /\ business_context \in Contexts
    /\ priority_result = None
    /\ selected_sources = << >>
    /\ sla_deadline = [source |-> None, deadline |-> NoTime]
    /\ applied = {}

\* the pod of execute_argo_workflow_<source_name> submits the workflow
SubmitArgoWorkflow(source_name) ==
    /\ applied = {}
    /\ sla_deadline' =
           [source   |-> source_name,
            deadline |-> submitted_sla_deadline(PriorityOf(source_name), current_time)]
    /\ applied' = {"create_argo_workflow_task"}
    /\ UNCHANGED <<current_time, business_context, priority_result, selected_sources>>
    /\ UNCHANGED <<runVars, testerVars>>

SpecSubmission ==
    InitSubmission /\ [][\E n \in SourceNames : SubmitArgoWorkflow(n)]_vars

\* C17: the sla-deadline parameter submitted to Argo for a source is what
\* calculate_sla_deadline gives for that source, the run's business context
\* and the time of submission: now + sla_minutes scaled by the multiplier of
\* the context.
C17_SubmittedDeadlineIsSlaDeadline ==
    Did("create_argo_workflow_task") =>
        sla_deadline.deadline =
            calculate_sla_deadline(sla_deadline.source, business_context, current_time)

(***************************************************************************)
(* Airflow's handling of a DAG run: task-instance states, trigger rules    *)
(* and retries, as the DAG files configure them.                           *)
(***************************************************************************)
Finished == {"success", "failed", "skipped", "upstream_failed"}

FailedStates == {"failed", "upstream_failed"}

\* What the scheduler decides for a task instance without a state, from its
\* trigger rule and the states of its upstream tasks:
\*   all_success (the default): upstream_failed as soon as one upstream failed,
\*       skipped as soon as one was skipped, run when all succeeded;
\*   none_failed: upstream_failed as soon as one upstream failed, run when all
\*       are finished (succeeded or skipped);
\*   one_failed: run as soon as one upstream failed, skipped when all finished
\*       without a failure;
\*   all_done: run when all upstream tasks are finished, whatever their state.
TriggerVerdict(rule, ups, st) ==
    LET failed   == \E u \in ups : st[u] \in FailedStates
        skipped  == \E u \in ups : st[u] = "skipped"
        all_done == \A u \in ups : st[u] \in Finished
        all_ok   == \A u \in ups : st[u] = "success"
    IN  CASE rule = "all_success" ->
                 IF failed THEN "upstream_failed"
                 ELSE IF skipped THEN "skipped"
                 ELSE IF all_ok THEN "run" ELSE "wait"
          [] rule = "none_failed" ->
                 IF failed THEN "upstream_failed"
                 ELSE IF all_done THEN "run" ELSE "wait"
          [] rule = "one_failed" ->
                 IF failed THEN "run"
                 ELSE IF all_done THEN "skipped" ELSE "wait"
          [] rule = "all_done" ->
                 IF all_done THEN "run" ELSE "wait"

(***************************************************************************)
(* The data_ingestion_orchestrator DAG                                     *)
(***************************************************************************)
\* default_args of data_ingestion_orchestrator
ingestion_default_args == [retries |-> 1, retry_delay_minutes |-> 5]

\* task_id=f'execute_argo_workflow_{source_name}'
workflow_task_id(source_name) ==
    CASE source_name = "bloomberg_api"         -> "execute_argo_workflow_bloomberg_api"
      [] source_name = "reuters_api"           -> "execute_argo_workflow_reuters_api"
      [] source_name = "nyse_feed"             -> "execute_argo_workflow_nyse_feed"
      [] source_name = "master_securities_db"  -> "execute_argo_workflow_master_securities_db"
      [] source_name = "corporate_actions_api" -> "execute_argo_workflow_corporate_actions_api"
      [] source_name = "social_sentiment_api"  -> "execute_argo_workflow_social_sentiment_api"
      [] source_name = "satellite_imagery"     -> "execute_argo_workflow_satellite_imagery"

\* workflow_tasks: one task per source of the three lists
workflow_tasks == {workflow_task_id(n) : n \in SourceNames}

IngestionTasks ==
    {"determine_business_priority", "select_data_sources", "market_hours_gate",
     "critical_path_processing", "standard_path_processing",
     "monitor_sla_compliance", "generate_business_report",
     "handle_business_escalation", "business_workflow_completed"}
    \cup workflow_tasks

\* any(source['name'] == task_name and source['priority'] == 'critical'
\*     for source in BUSINESS_CONFIG['market_data_sources'])
IsCriticalMarketSource(source_name) ==
    \E i \in 1..Len(market_data_sources) :
        /\ market_data_sources[i].name = source_name
        /\ market_data_sources[i].priority = "critical"

\* a wiring in which the workflow tasks have no upstream task
ingestion_upstream_unwired(t) ==
    CASE t = "determine_business_priority" -> {}
      [] t = "select_data_sources"         -> {"determine_business_priority"}
      [] t = "market_hours_gate"           -> {"select_data_sources"}
      [] t = "critical_path_processing"    -> {"market_hours_gate"}
      [] t = "standard_path_processing"    -> {"market_hours_gate"}
      [] t = "monitor_sla_compliance"      -> workflow_tasks
      [] t = "generate_business_report"    -> {"monitor_sla_compliance"}
      [] t = "business_workflow_completed" -> {"generate_business_report"}
      [] t = "handle_business_escalation"  ->
             {"monitor_sla_compliance", "generate_business_report"}
      [] OTHER -> {}

\* the >> wiring at the end of the DAG file
ingestion_upstream(t) ==
    CASE t = "determine_business_priority" -> {}
      [] t = "select_data_sources"         -> {"determine_business_priority"}
      [] t = "market_hours_gate"           -> {"select_data_sources"}
      [] t = "critical_path_processing"    -> {"market_hours_gate"}
      [] t = "standard_path_processing"    -> {"market_hours_gate"}
      [] t = "monitor_sla_compliance"      -> workflow_tasks
      [] t = "generate_business_report"    -> {"monitor_sla_compliance"}
      [] t = "business_workflow_completed" -> {"generate_business_report"}
      [] t = "handle_business_escalation"  ->
             {"monitor_sla_compliance", "generate_business_report"}
      [] OTHER ->
             LET n == CHOOSE n \in SourceNames : workflow_task_id(n) = t
             IN  IF IsCriticalMarketSource(n)
                 THEN {"critical_path_processing"}
                 ELSE {"standard_path_processing"}

\* trigger rules under which the completion task runs whatever happened
ingestion_trigger_rule_completion_all_done(t) ==
    IF t \in workflow_tasks THEN "none_failed"
    ELSE IF t = "monitor_sla_compliance" THEN "none_failed"
    ELSE IF t = "handle_business_escalation" THEN "one_failed"
    ELSE IF t = "business_workflow_completed" THEN "all_done"
    ELSE "all_success"

\* trigger rules in which the escalation task has the default rule
ingestion_trigger_rule_escalation_default(t) ==
    IF t \in workflow_tasks THEN "none_failed"
    ELSE IF t = "monitor_sla_compliance" THEN "none_failed"
    ELSE IF t = "business_workflow_completed" THEN "none_failed"
    ELSE "all_success"

\* trigger_rule=... of each operator; all_success where none is given
ingestion_trigger_rule(t) ==
    IF t \in workflow_tasks THEN "none_failed"
    ELSE IF t = "monitor_sla_compliance" THEN "none_failed"
    ELSE IF t = "handle_business_escalation" THEN "one_failed"
    ELSE IF t = "business_workflow_completed" THEN "none_failed"
    ELSE "all_success"

\* no operator of this DAG sets retries or retry_delay: default_args apply
ingestion_retries(t) == ingestion_default_args.retries

ingestion_retry_delay_minutes(t) == ingestion_default_args.retry_delay_minutes

\* a gate that follows the standard path whatever the priority
market_hours_gate_always_standard(ctx) == "standard_path_processing"

\* the python_callable of market_hours_gate: the task id to follow
market_hours_gate(ctx) ==
    IF ctx = "market_hours_critical"
    THEN "critical_path_processing"
    ELSE "standard_path_processing"

IngestionVerdict(t) ==
    TriggerVerdict(ingestion_trigger_rule(t), ingestion_upstream(t), ti_state)

\* the scheduler may start the task: its trigger rule is met, or it waits
\* for a retry
IngestionRunnable(t) ==
    \/ ti_state[t] = "none" /\ IngestionVerdict(t) = "run"
    \/ ti_state[t] = "up_for_retry"

\* number of failed attempts allowed in one run of the model
MaxArgoFailures == 3

InitIngestion ==
    /\ RulesIdle
    /\ TestersIdle
    /\ GitopsIdle
    /\ ti_state = [t \in IngestionTasks |-> "none"]
    /\ try_number = [t \in IngestionTasks |-> 0]
    /\ retry_wait = [t \in IngestionTasks |-> 0]
    /\ argo_failures = 0

\* the attempt of task t ended without an error
AttemptSucceeds(t) ==
    /\ ti_state' = [ti_state EXCEPT ![t] = "success"]
    /\ try_number' = [try_number EXCEPT ![t] = @ + 1]
    /\ retry_wait' = [retry_wait EXCEPT ![t] = 0]

\* the attempt of task t failed: Airflow retries while try_number <= retries
AttemptFails(t, retries, delay) ==
    /\ try_number' = [try_number EXCEPT ![t] = @ + 1]
    /\ IF try_number[t] + 1 <= retries
       THEN /\ ti_state' = [ti_state EXCEPT ![t] = "up_for_retry"]
            /\ retry_wait' = [retry_wait EXCEPT ![t] = delay]
       ELSE /\ ti_state' = [ti_state EXCEPT ![t] = "failed"]
            /\ retry_wait' = [retry_wait EXCEPT ![t] = 0]

\* determine_priority_task: the return value goes to XCom
RunDeterminePriority ==
    /\ IngestionRunnable("determine_business_priority")
    /\ \E now \in Clocks : priority_result' = determine_business_priority(now)
    /\ AttemptSucceeds("determine_business_priority")
    /\ UNCHANGED <<current_time, business_context, selected_sources, sla_deadline,
                   applied, argo_failures>>
    /\ UNCHANGED <<gitopsVars, testerVars>>

\* select_sources_task: pulls the business context, returns the list to XCom
RunSelectSources ==
    /\ IngestionRunnable("select_data_sources")
    /\ business_context' = priority_result
    /\ selected_sources' = select_data_sources(priority_result)
    /\ AttemptSucceeds("select_data_sources")
    /\ UNCHANGED <<current_time, priority_result, sla_deadline, applied, argo_failures>>
    /\ UNCHANGED <<gitopsVars, testerVars>>

\* market_hours_gate (BranchPythonOperator): follows the returned task id and
\* skips its other directly downstream tasks
RunMarketHoursGate ==
    /\ IngestionRunnable("market_hours_gate")
    /\ ti_state' =
           [t \in IngestionTasks |->
               IF t = "market_hours_gate" THEN "success"
               ELSE IF "market_hours_gate" \in ingestion_upstream(t)
                       /\ t # market_hours_gate(priority_result)
                    THEN "skipped"
                    ELSE ti_state[t]]
    /\ try_number' = [try_number EXCEPT !["market_hours_gate"] = @ + 1]
    /\ UNCHANGED <<rulesVars, retry_wait, argo_failures>>
    /\ UNCHANGED <<gitopsVars, testerVars>>

\* DummyOperator and the PythonOperators whose callables cannot raise
PlainTasks ==
    {"critical_path_processing", "standard_path_processing",
     "monitor_sla_compliance", "generate_business_report",
     "handle_business_escalation", "business_workflow_completed"}

RunPlainTask(t) ==
    /\ IngestionRunnable(t)
    /\ AttemptSucceeds(t)
    /\ UNCHANGED <<rulesVars, argo_failures>>
    /\ UNCHANGED <<gitopsVars, testerVars>>

\* execute_argo_workflow_<source>: the pod runs 'argo submit ... --wait' as the
\* last command of its shell, so the attempt succeeds iff argo exits 0
RunArgoWorkflow(t, exit_code) ==
    /\ IngestionRunnable(t)
    /\ IF exit_code = 0
       THEN /\ AttemptSucceeds(t)
            /\ UNCHANGED argo_failures
       ELSE /\ argo_failures < MaxArgoFailures
            /\ AttemptFails(t, ingestion_retries(t), ingestion_retry_delay_minutes(t))
            /\ argo_failures' = argo_failures + 1
    /\ UNCHANGED rulesVars
    /\ UNCHANGED <<gitopsVars, testerVars>>

\* the scheduler gives a state to a task that will not run
IngestionMarkUpstreamFailed(t) ==
    /\ ti_state[t] = "none"
    /\ IngestionVerdict(t) = "upstream_failed"
    /\ ti_state' = [ti_state EXCEPT ![t] = "upstream_failed"]
    /\ UNCHANGED <<rulesVars, try_number, retry_wait, argo_failures>>
    /\ UNCHANGED <<gitopsVars, testerVars>>

IngestionMarkSkipped(t) ==
    /\ ti_state[t] = "none"
    /\ IngestionVerdict(t) = "skipped"
    /\ ti_state' = [ti_state EXCEPT ![t] = "skipped"]
    /\ UNCHANGED <<rulesVars, try_number, retry_wait, argo_failures>>
    /\ UNCHANGED <<gitopsVars, testerVars>>

ExitCodes == {0, 1}

NextIngestion ==
    \/ RunDeterminePriority
    \/ RunSelectSources
    \/ RunMarketHoursGate
    \/ \E t \in PlainTasks : RunPlainTask(t)
    \/ \E t \in workflow_tasks, rc \in ExitCodes : RunArgoWorkflow(t, rc)
    \/ \E t \in IngestionTasks : IngestionMarkUpstreamFailed(t)
    \/ \E t \in IngestionTasks : IngestionMarkSkipped(t)

SpecIngestion == InitIngestion /\ [][NextIngestion]_vars

\* the scheduler gives every task instance whose trigger rule is decided its
\* state, and starts every task whose trigger rule is met
FairIngestion ==
    /\ SpecIngestion
    /\ \A t \in IngestionTasks : WF_vars(IngestionMarkUpstreamFailed(t))
    /\ \A t \in PlainTasks : WF_vars(RunPlainTask(t))

(***************************************************************************)
(* Claims about a run of data_ingestion_orchestrator (SpecIngestion)       *)
(***************************************************************************)
\* the task instance has been started at least once
Executed(t) == try_number[t] > 0

\* C4: the workflow task of a source with priority p is retried at most
\* retry_policies[p].max_retries times, retry_policies[p].retry_delay_minutes
\* apart: it waits that long before a retry, and it is given up as failed only
\* when those retries are used up.
C4_RetryPolicyByPriority ==
    \A n \in SourceNames :
        LET t      == workflow_task_id(n)
            policy == retry_policies[PriorityOf(n)]
        IN  /\ try_number[t] <= policy.max_retries + 1
            /\ ti_state[t] = "up_for_retry" =>
                   retry_wait[t] = policy.retry_delay_minutes
            /\ ti_state[t] = "failed" => try_number[t] = policy.max_retries + 1

\* C5: execute_argo_workflow_<source> is executed only if <source> is in the
\* list select_data_sources returned for the run's business context.
C5_OnlySelectedSourcesExecute ==
    \A n \in SourceNames :
        Executed(workflow_task_id(n)) => n \in SeqToSet(selected_sources)

\* C13: once market_hours_gate has run, exactly one of
\* critical_path_processing and standard_path_processing is followed and the
\* other one is skipped: the critical path iff the business priority pulled
\* from determine_business_priority is 'market_hours_critical'. Of the seven
\* workflow tasks, execute_argo_workflow_bloomberg_api is wired downstream of
\* critical_path_processing only, and the six others downstream of
\* standard_path_processing only.
C13_GateFollowsOnePath ==
    LET critical == "critical_path_processing"
        standard == "standard_path_processing"
        followed == IF priority_result = "market_hours_critical"
                    THEN critical ELSE standard
        other    == IF followed = critical THEN standard ELSE critical
    IN  /\ ~Executed("market_hours_gate") =>
               ti_state[critical] = "none" /\ ti_state[standard] = "none"
        /\ Executed("market_hours_gate") =>
               /\ ti_state["market_hours_gate"] = "success"
               /\ ti_state[other] = "skipped"
               /\ ~Executed(other)
               /\ ti_state[followed] \in {"none", "success"}
        /\ \A n \in SourceNames :
               ingestion_upstream(workflow_task_id(n)) =
                   IF n = "bloomberg_api" THEN {critical} ELSE {standard}

\* during market hours the critical path ran, the standard path was skipped
C13_WitnessCriticalPathFollowed ==
    /\ priority_result = "market_hours_critical"
    /\ ti_state["market_hours_gate"] = "success"
    /\ ti_state["critical_path_processing"] = "success"
    /\ ti_state["standard_path_processing"] = "skipped"

\* what must hold when an attempt of task t starts
StartsInOrder(t) ==
    /\ t \in workflow_tasks =>
           /\ ti_state["determine_business_priority"] = "success"
           /\ ti_state["select_data_sources"] = "success"
           /\ ti_state["market_hours_gate"] = "success"
    /\ t = "monitor_sla_compliance" =>
           \A w \in workflow_tasks : ti_state[w] \in Finished
    /\ t = "generate_business_report" =>
           ti_state["monitor_sla_compliance"] = "success"
    /\ t = "business_workflow_completed" =>
           ti_state["generate_business_report"] \in Finished

\* C14: in every step of a run that starts an attempt of a task, the task's
\* predecessors are done: an execute_argo_workflow task starts only when
\* determine_business_priority, select_data_sources and market_hours_gate have
\* succeeded; monitor_sla_compliance only when all seven workflow tasks are in
\* a terminal state; generate_business_report only when monitor_sla_compliance
\* succeeded; business_workflow_completed only when generate_business_report
\* is finished.
C14_IngestionOrdering ==
    [][\A t \in IngestionTasks :
           try_number'[t] > try_number[t] => StartsInOrder(t)]_vars

\* a run went all the way to business_workflow_completed
C14_WitnessRunCompleted ==
    /\ \A w \in workflow_tasks : ti_state[w] = "success"
    /\ ti_state["monitor_sla_compliance"] = "success"
    /\ ti_state["generate_business_report"] = "success"
    /\ ti_state["business_workflow_completed"] = "success"

\* C15: business_workflow_completed is executed only when no
\* execute_argo_workflow task, nor monitor_sla_compliance, nor
\* generate_business_report has failed: when it is executed all of them are
\* finished as success, and as soon as one workflow task is failed the
\* completion task has not run and never will.
C15_CompletionOnlyWithoutFailure ==
    LET completed == "business_workflow_completed"
        before    == workflow_tasks \cup
                         {"monitor_sla_compliance", "generate_business_report"}
    IN  /\ Executed(completed) =>
               \A t \in before : ti_state[t] = "success"
        /\ (\E t \in before : ti_state[t] \in FailedStates) =>
               /\ ~Executed(completed)
               /\ ti_state[completed] \in {"none", "upstream_failed"}

\* one workflow task failed, the six others succeeded, and the completion
\* task was given the state upstream_failed without running
C15_WitnessFailureBlocksCompletion ==
    /\ ti_state["execute_argo_workflow_satellite_imagery"] = "failed"
    /\ \A w \in workflow_tasks \ {"execute_argo_workflow_satellite_imagery"} :
           ti_state[w] = "success"
    /\ ti_state["business_workflow_completed"] = "upstream_failed"
    /\ ~Executed("business_workflow_completed")

SomeWorkflowFailed == \E w \in workflow_tasks : ti_state[w] = "failed"

\* C16: when an execute_argo_workflow task has ended as failed,
\* handle_business_escalation is eventually executed; and it is executed only
\* then: in a run without a failed task it never runs, and it is skipped once
\* monitor_sla_compliance and generate_business_report have succeeded.
C16_FailuresAreEscalated ==
    /\ SomeWorkflowFailed ~> Executed("handle_business_escalation")
    /\ [](Executed("handle_business_escalation") => SomeWorkflowFailed)
    /\ [](ti_state["business_workflow_completed"] = "success" =>
              ti_state["handle_business_escalation"] \in {"none", "skipped"})

\* a critical source failed after its retry and the escalation task ran
C16_WitnessEscalatedAfterFailure ==
    /\ ti_state["execute_argo_workflow_bloomberg_api"] = "failed"
    /\ try_number["execute_argo_workflow_bloomberg_api"] = 2
    /\ ti_state["monitor_sla_compliance"] = "upstream_failed"
    /\ ti_state["handle_business_escalation"] = "success"

(***************************************************************************)
(* The gitops_platform_deployment DAG                                      *)
(***************************************************************************)
\* how one kubectl invocation ends: exit status 0, a non-zero exit status,
\* or the process could not be started (subprocess.run raises OSError)
KubectlOutcomes == {"exit_0", "exit_nonzero", "not_started"}

\* subprocess.run([...], check=check): the exception it raises, or None
subprocess_run(outcome, check) ==
    IF outcome = "not_started" THEN "OSError"
    ELSE IF check /\ outcome = "exit_nonzero" THEN "CalledProcessError"
    ELSE None

Returns(value, calls) == [value |-> value, raised |-> None, calls |-> calls]

Raises(exception, calls) == [value |-> None, raised |-> exception, calls |-> calls]

\* check_prerequisites: kubectl get deployment argocd-server (check=True), then
\* readyReplicas > 0; the handler logs and re-raises
check_prerequisites(outcome, ready_replicas) ==
    IF subprocess_run(outcome, TRUE) # None
    THEN Raises(subprocess_run(outcome, TRUE), <<outcome>>)
    ELSE IF ready_replicas > 0
         THEN Returns("True", <<outcome>>)
         ELSE Raises("Exception", <<outcome>>)

\* a variant whose handler re-raises, as the other callables' handlers do
cleanup_previous_deployment_reraising(outcome1, outcome2) ==
    IF subprocess_run(outcome1, FALSE) # None
    THEN Raises(subprocess_run(outcome1, FALSE), <<outcome1>>)
    ELSE IF subprocess_run(outcome2, FALSE) # None
         THEN Raises(subprocess_run(outcome2, FALSE), <<outcome1, outcome2>>)
         ELSE Returns("True", <<outcome1, outcome2>>)

\* cleanup_previous_deployment: two kubectl delete with check=False; the
\* handler logs and returns True
cleanup_previous_deployment(outcome1, outcome2) ==
    IF subprocess_run(outcome1, FALSE) # None
    THEN Returns("True", <<outcome1>>)
    ELSE IF subprocess_run(outcome2, FALSE) # None
         THEN Returns("True", <<outcome1, outcome2>>)
         ELSE Returns("True", <<outcome1, outcome2>>)

\* a variant that runs kubectl apply with check=False
trigger_gitops_workflow_unchecked(apply_outcome, get_outcome, stdout_name) ==
    IF subprocess_run(apply_outcome, FALSE) # None
    THEN Raises(subprocess_run(apply_outcome, FALSE), <<apply_outcome>>)
    ELSE IF subprocess_run(get_outcome, TRUE) # None
         THEN Raises(subprocess_run(get_outcome, TRUE), <<apply_outcome, get_outcome>>)
         ELSE Returns(stdout_name, <<apply_outcome, get_outcome>>)

\* trigger_gitops_workflow: kubectl apply, then kubectl get workflows (both
\* check=True); returns result.stdout.strip()
trigger_gitops_workflow(apply_outcome, get_outcome, stdout_name) ==
    IF subprocess_run(apply_outcome, TRUE) # None
    THEN Raises(subprocess_run(apply_outcome, TRUE), <<apply_outcome>>)
    ELSE IF subprocess_run(get_outcome, TRUE) # None
         THEN Raises(subprocess_run(get_outcome, TRUE), <<apply_outcome, get_outcome>>)
         ELSE Returns(stdout_name, <<apply_outcome, get_outcome>>)

\* monitor_deployment_progress: needs a workflow name from XCom, then kubectl
\* get workflow (check=True); returns the phase
monitor_deployment_progress(workflow_name, outcome, phase) ==
    IF workflow_name = None \/ workflow_name = ""
    THEN Raises("Exception", << >>)
    ELSE IF subprocess_run(outcome, TRUE) # None
         THEN Raises(subprocess_run(outcome, TRUE), <<outcome>>)
         ELSE Returns(phase, <<outcome>>)

\* validate_deployment with a threshold that exactly 80% does not meet
validate_deployment_above_threshold(outcome1, total_apps, outcome2, healthy_apps) ==
    IF subprocess_run(outcome1, TRUE) # None
    THEN Raises(subprocess_run(outcome1, TRUE), <<outcome1>>)
    ELSE IF subprocess_run(outcome2, TRUE) # None
         THEN Raises(subprocess_run(outcome2, TRUE), <<outcome1, outcome2>>)
         ELSE IF total_apps > 0 /\ healthy_apps * 10 > total_apps * 8
              THEN Returns("True", <<outcome1, outcome2>>)
              ELSE Returns("False", <<outcome1, outcome2>>)

\* validate_deployment: two kubectl get applications (check=True); passes when
\* total_apps > 0 and healthy_apps >= total_apps * 0.8
validate_deployment(outcome1, total_apps, outcome2, healthy_apps) ==
    IF subprocess_run(outcome1, TRUE) # None
    THEN Raises(subprocess_run(outcome1, TRUE), <<outcome1>>)
    ELSE IF subprocess_run(outcome2, TRUE) # None
         THEN Raises(subprocess_run(outcome2, TRUE), <<outcome1, outcome2>>)
         ELSE IF total_apps > 0 /\ healthy_apps * 10 >= total_apps * 8
              THEN Returns("True", <<outcome1, outcome2>>)
              ELSE Returns("False", <<outcome1, outcome2>>)

\* send_deployment_notification: pulls two XCom values, logs, returns True
send_deployment_notification == Returns("True", << >>)

\* for i in {1..10}
HealthCheckIterations == 10

\* continuous_health_check, when the 'sleep 30' of iteration i is over: the
\* next iteration, or the end of the script, whose exit status is that of
\* the last sleep whatever the kubectl calls did
continuous_health_check(i) ==
    IF i < HealthCheckIterations THEN "sleep" ELSE "exit_0"

\* wait_for_workflow_completion: PHASE=$(kubectl get workflow ... || echo "Unknown")
observed_phase(outcome, phase) ==
    IF outcome = "exit_0" THEN phase ELSE "Unknown"

\* the case statement of the loop: exit 0, exit 1, or sleep and poll again
wait_loop_step(PHASE) ==
    IF PHASE = "Succeeded" THEN "exit_0"
    ELSE IF PHASE \in {"Failed", "Error"} THEN "exit_1"
    ELSE "sleep"

GitopsTasks ==
    {"check_prerequisites", "cleanup_previous_deployment", "trigger_gitops_workflow",
     "monitor_deployment_progress", "wait_for_workflow_completion",
     "continuous_health_check", "validate_deployment",
     "send_deployment_notification"}

\* Task Dependencies
\* the wiring without 'health_check_task >> validate_task'
gitops_upstream_health_check_unjoined(t) ==
    CASE t = "check_prerequisites"          -> {}
      [] t = "cleanup_previous_deployment"  -> {"check_prerequisites"}
      [] t = "trigger_gitops_workflow"      -> {"cleanup_previous_deployment"}
      [] t = "monitor_deployment_progress"  -> {"trigger_gitops_workflow"}
      [] t = "wait_for_workflow_completion" -> {"monitor_deployment_progress"}
      [] t = "continuous_health_check"      -> {"trigger_gitops_workflow"}
      [] t = "validate_deployment"          -> {"wait_for_workflow_completion"}
      [] t = "send_deployment_notification" -> {"validate_deployment"}

gitops_upstream(t) ==
    CASE t = "check_prerequisites"          -> {}
      [] t = "cleanup_previous_deployment"  -> {"check_prerequisites"}
      [] t = "trigger_gitops_workflow"      -> {"cleanup_previous_deployment"}
      [] t = "monitor_deployment_progress"  -> {"trigger_gitops_workflow"}
      [] t = "wait_for_workflow_completion" -> {"monitor_deployment_progress"}
      [] t = "continuous_health_check"      -> {"trigger_gitops_workflow"}
      [] t = "validate_deployment"          ->
             {"wait_for_workflow_completion", "continuous_health_check"}
      [] t = "send_deployment_notification" -> {"validate_deployment"}

\* a variant in which the notification keeps the default rule
gitops_trigger_rule_default(t) == "all_success"

\* notification_task has trigger_rule='all_done'; the others the default
gitops_trigger_rule(t) ==
    IF t = "send_deployment_notification" THEN "all_done" ELSE "all_success"

\* default_args retries 2, retry_delay 5 min; monitor_task 10 and 2 min
gitops_default_args == [retries |-> 2, retry_delay_minutes |-> 5]

monitor_task_args == [retries |-> 10, retry_delay_minutes |-> 2]

gitops_retries(t) ==
    IF t = "monitor_deployment_progress"
    THEN monitor_task_args.retries
    ELSE gitops_default_args.retries

gitops_retry_delay_minutes(t) ==
    IF t = "monitor_deployment_progress"
    THEN monitor_task_args.retry_delay_minutes
    ELSE gitops_default_args.retry_delay_minutes

GitopsVerdict(t) ==
    TriggerVerdict(gitops_trigger_rule(t), gitops_upstream(t), ti_state)

GitopsRunnable(t) ==
    \/ ti_state[t] = "none" /\ GitopsVerdict(t) = "run"
    \/ ti_state[t] = "up_for_retry"

\* inputs of the model
MaxReplicas == 1
MaxApps == 5

WorkflowNames == {"", "airflow-triggered-gitops-abcde"}

\* .status.phase as kubectl prints it; "" when the workflow has no status yet
Phases == {"", "Pending", "Running", "Succeeded", "Failed", "Error", "Unknown"}

\* what a kubectl invocation prints: a command that did not exit 0 prints
\* nothing the callable goes on to read
StdoutCounts(outcome, max) == IF outcome = "exit_0" THEN 0..max ELSE {0}

StdoutNames(outcome) == IF outcome = "exit_0" THEN WorkflowNames ELSE {""}

StdoutPhases(outcome) == IF outcome = "exit_0" THEN Phases ELSE {"Unknown"}

InitGitops ==
    /\ RulesIdle
    /\ TestersIdle
    /\ ti_state = [t \in GitopsTasks |-> "none"]
    /\ try_number = [t \in GitopsTasks |-> 0]
    /\ retry_wait = [t \in GitopsTasks |-> 0]
    /\ argo_failures = 0
    /\ return_value = [t \in GitopsTasks |-> None]
    /\ last_attempt = NoAttempt
    /\ health_checks = 0

\* a PythonOperator attempt: the callable returned or raised
PythonAttempt(t, outcome) ==
    /\ GitopsRunnable(t)
    /\ IF outcome.raised = None
       THEN /\ AttemptSucceeds(t)
            /\ return_value' = [return_value EXCEPT ![t] = outcome.value]
       ELSE /\ AttemptFails(t, gitops_retries(t), gitops_retry_delay_minutes(t))
            /\ UNCHANGED return_value
    /\ last_attempt' =
           [task   |-> t,
            calls  |-> outcome.calls,
            stdout |-> << >>,
            result |-> IF outcome.raised = None THEN "success" ELSE "failed",
            raised |-> outcome.raised]
    /\ UNCHANGED <<rulesVars, testerVars, argo_failures, health_checks>>

RunCheckPrerequisites ==
    \E o \in KubectlOutcomes :
        \E ready \in StdoutCounts(o, MaxReplicas) :
            PythonAttempt("check_prerequisites", check_prerequisites(o, ready))

RunCleanup ==
    \E o1, o2 \in KubectlOutcomes :
        PythonAttempt("cleanup_previous_deployment",
                      cleanup_previous_deployment(o1, o2))

RunTriggerWorkflow ==
    \E o1, o2 \in KubectlOutcomes :
        \E name \in StdoutNames(o2) :
            PythonAttempt("trigger_gitops_workflow",
                          trigger_gitops_workflow(o1, o2, name))

\* xcom_pull(key='workflow_name'): what trigger_gitops_workflow pushed
RunMonitor ==
    \E o \in KubectlOutcomes :
        \E phase \in StdoutPhases(o) :
            PythonAttempt("monitor_deployment_progress",
                          monitor_deployment_progress(
                              return_value["trigger_gitops_workflow"], o, phase))

RunValidate ==
    \E o1, o2 \in KubectlOutcomes :
        \E total \in StdoutCounts(o1, MaxApps), healthy \in StdoutCounts(o2, MaxApps) :
            PythonAttempt("validate_deployment",
                          validate_deployment(o1, total, o2, healthy))

RunNotification ==
    PythonAttempt("send_deployment_notification", send_deployment_notification)

\* the script of continuous_health_check starts: iteration 1 calls kubectl
\* get applications (the namespace probes that follow are not told apart)
\* and waits in 'sleep 30'; the exit status of kubectl is not looked at
StartHealthCheck ==
    /\ GitopsRunnable("continuous_health_check")
    /\ \E o \in KubectlOutcomes :
           last_attempt' = [task   |-> "continuous_health_check",
                            calls  |-> <<o>>,
                            stdout |-> << >>,
                            result |-> "running",
                            raised |-> None]
    /\ ti_state' = [ti_state EXCEPT !["continuous_health_check"] = "running"]
    /\ health_checks' = 1
    /\ UNCHANGED <<rulesVars, testerVars, try_number, retry_wait, argo_failures,
                   return_value>>

\* a 'sleep 30' of the loop is over: the kubectl calls and the sleep of the
\* next iteration, or, after the last one, the script exits 0 and the
\* BashOperator succeeds
HealthCheckSleepReturns ==
    /\ ti_state["continuous_health_check"] = "running"
    /\ LET t == "continuous_health_check"
       IN  IF continuous_health_check(health_checks) = "sleep"
           THEN /\ \E o \in KubectlOutcomes :
                       last_attempt' = [task   |-> t,
                                        calls  |-> <<o>>,
                                        stdout |-> << >>,
                                        result |-> "running",
                                        raised |-> None]
                /\ health_checks' = health_checks + 1
                /\ UNCHANGED <<ti_state, try_number, retry_wait, return_value>>
           ELSE /\ AttemptSucceeds(t)
                /\ return_value' = [return_value EXCEPT ![t] = "0"]
                /\ last_attempt' = [task   |-> t,
                                    calls  |-> << >>,
                                    stdout |-> << >>,
                                    result |-> "success",
                                    raised |-> None]
                /\ UNCHANGED health_checks
    /\ UNCHANGED <<rulesVars, testerVars, argo_failures>>

\* the pod of wait_for_workflow_completion starts: WORKFLOW_NAME=$(kubectl get
\* workflows ...), whose exit status the script does not look at
StartWaitPod ==
    /\ GitopsRunnable("wait_for_workflow_completion")
    /\ \E o \in KubectlOutcomes :
           last_attempt' = [task   |-> "wait_for_workflow_completion",
                            calls  |-> <<o>>,
                            stdout |-> << >>,
                            result |-> "running",
                            raised |-> None]
    /\ ti_state' = [ti_state EXCEPT !["wait_for_workflow_completion"] = "running"]
    /\ UNCHANGED <<rulesVars, testerVars, try_number, retry_wait, argo_failures,
                   return_value, health_checks>>

\* one iteration of the loop; the loop has no limit and keeps no count
WaitPoll ==
    /\ ti_state["wait_for_workflow_completion"] = "running"
    /\ \E o \in KubectlOutcomes : \E phase \in StdoutPhases(o) :
         LET step == wait_loop_step(observed_phase(o, phase))
             t    == "wait_for_workflow_completion"
         IN  /\ IF step = "exit_0"
                THEN AttemptSucceeds(t)
                ELSE IF step = "exit_1"
                     THEN AttemptFails(t, gitops_retries(t),
                                       gitops_retry_delay_minutes(t))
                     ELSE UNCHANGED <<ti_state, try_number, retry_wait>>
             /\ last_attempt' =
                    [task   |-> t,
                     calls  |-> <<o>>,
                     stdout |-> <<observed_phase(o, phase)>>,
                     result |-> IF step = "exit_0" THEN "success"
                                ELSE IF step = "exit_1" THEN "failed"
                                ELSE "running",
                     raised |-> None]
    /\ UNCHANGED <<rulesVars, testerVars, argo_failures, return_value, health_checks>>

GitopsMarkUpstreamFailed(t) ==
    /\ ti_state[t] = "none"
    /\ GitopsVerdict(t) = "upstream_failed"
    /\ ti_state' = [ti_state EXCEPT ![t] = "upstream_failed"]
    /\ UNCHANGED <<rulesVars, testerVars, try_number, retry_wait, argo_failures, gitopsVars>>

NextGitops ==
    \/ RunCheckPrerequisites
    \/ RunCleanup
    \/ RunTriggerWorkflow
    \/ RunMonitor
    \/ StartWaitPod
    \/ WaitPoll
    \/ StartHealthCheck
    \/ HealthCheckSleepReturns
    \/ RunValidate
    \/ RunNotification
    \/ \E t \in GitopsTasks : GitopsMarkUpstreamFailed(t)

SpecGitops == InitGitops /\ [][NextGitops]_vars

\* the pod of wait_for_workflow_completion keeps executing its script
FairWait == SpecGitops /\ WF_vars(WaitPoll)

\* the scheduler starts every task whose trigger rule is met
FairGitops == SpecGitops /\ WF_vars(RunNotification)

(***************************************************************************)
(* Claims about a run of gitops_platform_deployment (SpecGitops)           *)
(***************************************************************************)
\* C10: cleanup_previous_deployment never fails the run: whatever its kubectl
\* delete invocations do (exit 0, exit non-zero, or raise), every attempt
\* returns True and succeeds, so the task is never failed or waiting for a
\* retry, and trigger_gitops_workflow is only ever held back when cleanup never
\* ran at all (check_prerequisites failed).
C10_CleanupNeverFails ==
    LET t == "cleanup_previous_deployment"
    IN  /\ ti_state[t] \notin {"failed", "up_for_retry"}
        /\ Executed(t) =>
               /\ ti_state[t] = "success"
               /\ try_number[t] = 1
               /\ return_value[t] = "True"
        /\ last_attempt.task = t =>
               last_attempt.result = "success" /\ last_attempt.raised = None
        /\ ti_state["trigger_gitops_workflow"] = "upstream_failed" =>
               ~Executed(t) /\ ti_state["check_prerequisites"] = "failed"

\* cleanup ran, its first kubectl delete could not even be started, and the
\* task still returned True and succeeded
C10_WitnessCleanupSurvivesRaise ==
    /\ last_attempt.task = "cleanup_previous_deployment"
    /\ last_attempt.calls = <<"not_started">>
    /\ ti_state["cleanup_previous_deployment"] = "success"
    /\ return_value["cleanup_previous_deployment"] = "True"

\* C9: once validate_deployment, the only upstream task of
\* send_deployment_notification, is in a terminal state (success, failed or
\* upstream_failed), the notification task is eventually executed.
C9_NotificationEventuallyRuns ==
    (ti_state["validate_deployment"] \in Finished)
        ~> Executed("send_deployment_notification")

\* the notification ran in a run whose very first task failed
C9_WitnessNotifiedAfterFailure ==
    /\ ti_state["check_prerequisites"] = "failed"
    /\ ti_state["validate_deployment"] = "upstream_failed"
    /\ ti_state["send_deployment_notification"] = "success"
    /\ return_value["send_deployment_notification"] = "True"

\* what must hold when an attempt of task t of gitops_platform_deployment
\* starts
GitopsStartsInOrder(t) ==
    /\ t = "trigger_gitops_workflow" =>
           /\ ti_state["check_prerequisites"] = "success"
           /\ return_value["check_prerequisites"] = "True"
           /\ ti_state["cleanup_previous_deployment"] \in Finished
    /\ t \in {"monitor_deployment_progress", "continuous_health_check"} =>
           ti_state["trigger_gitops_workflow"] = "success"
    /\ t = "validate_deployment" =>
           /\ ti_state["wait_for_workflow_completion"] = "success"
           /\ ti_state["continuous_health_check"] = "success"

\* C18: in every step of a run that starts an attempt of a task, the task's
\* predecessors are done: trigger_gitops_workflow starts only when
\* check_prerequisites succeeded (it returned True, having seen at least one
\* ready ArgoCD replica) and cleanup_previous_deployment is finished;
\* monitor_deployment_progress and continuous_health_check only when
\* trigger_gitops_workflow succeeded; validate_deployment only when both
\* wait_for_workflow_completion and continuous_health_check succeeded.
C18_GitopsOrdering ==
    [][\A t \in GitopsTasks :
           try_number'[t] > try_number[t] => GitopsStartsInOrder(t)]_vars

\* validate_deployment ran, after the wait pod and the health check
C18_WitnessValidatedAfterBoth ==
    /\ Executed("validate_deployment")
    /\ ti_state["wait_for_workflow_completion"] = "success"
    /\ ti_state["continuous_health_check"] = "success"
    /\ ti_state["trigger_gitops_workflow"] = "success"

WaitRunning == ti_state["wait_for_workflow_completion"] = "running"

\* C19: an iteration of the wait_for_workflow_completion loop ends the pod
\* with exit 0 (the attempt succeeds) when the observed phase is 'Succeeded',
\* with exit 1 (the attempt fails) when it is 'Failed' or 'Error', and
\* otherwise keeps the pod running to poll again, a failed kubectl read being
\* observed as 'Unknown'; and every execution of the loop eventually exits.
C19_WaitLoopTerminates ==
    /\ [][WaitRunning /\ last_attempt'.task = "wait_for_workflow_completion" =>
             LET PHASE == last_attempt'.stdout[1]
             IN  /\ last_attempt'.calls # <<"exit_0">> => PHASE = "Unknown"
                 /\ PHASE = "Succeeded" <=> last_attempt'.result = "success"
                 /\ PHASE \in {"Failed", "Error"} <=> last_attempt'.result = "failed"
                 /\ PHASE \notin {"Succeeded", "Failed", "Error"} <=> WaitRunning']_vars
    /\ WaitRunning ~> ~WaitRunning

(***************************************************************************)
(* validate_deployment called on its own: what its two kubectl invocations *)
(* will do and print is drawn in the initial state (SpecValidation).       *)
(***************************************************************************)
InitValidation ==
    /\ RulesIdle
    /\ TestersIdle
    /\ ti_state = << >>
    /\ try_number = << >>
    /\ retry_wait = << >>
    /\ argo_failures = 0
    /\ return_value = << >>
    /\ health_checks = 0
    /\ \E o1, o2 \in KubectlOutcomes :
           \E total \in StdoutCounts(o1, MaxApps), healthy \in StdoutCounts(o2, MaxApps) :
               last_attempt = [task   |-> None,
                               calls  |-> <<o1, o2>>,
                               stdout |-> <<total, healthy>>,
                               result |-> None,
                               raised |-> None]

\* validate_deployment(**context): calls records the invocations it made
CallValidateDeployment ==
    /\ last_attempt.task = None
    /\ LET outcome == validate_deployment(last_attempt.calls[1], last_attempt.stdout[1],
                                          last_attempt.calls[2], last_attempt.stdout[2])
       IN  /\ last_attempt' =
                  [task   |-> "validate_deployment",
                   calls  |-> outcome.calls,
                   stdout |-> last_attempt.stdout,
                   result |-> IF outcome.raised = None THEN "success" ELSE "failed",
                   raised |-> outcome.raised]
           /\ return_value' =
                  IF outcome.raised = None
                  THEN [t \in {"validate_deployment"} |-> outcome.value]
                  ELSE return_value
    /\ UNCHANGED <<rulesVars, testerVars, ti_state, try_number, retry_wait,
                   argo_failures, health_checks>>

SpecValidation == InitValidation /\ [][CallValidateDeployment]_vars

\* C11: validate_deployment raises exactly when one of its kubectl
\* invocations fails (exits non-zero or cannot be started), with the error of
\* the first failing invocation; otherwise it returns, and it returns True
\* exactly when total_apps > 0 and healthy_apps * 10 >= total_apps * 8, and
\* False for zero applications or fewer than 80% healthy ones.
C11_ValidationThreshold ==
    LET a       == last_attempt
        total   == a.stdout[1]
        healthy == a.stdout[2]
    IN  a.task = "validate_deployment" =>
            /\ (a.raised # None) <=> (\E i \in 1..Len(a.calls) : a.calls[i] # "exit_0")
            /\ a.raised # None =>
                   /\ a.result = "failed"
                   /\ a.calls[Len(a.calls)] # "exit_0"
                   /\ return_value = << >>
            /\ a.raised = None =>
                   /\ a.result = "success"
                   /\ return_value["validate_deployment"] \in {"True", "False"}
                   /\ (return_value["validate_deployment"] = "True") <=>
                          (total > 0 /\ healthy * 10 >= total * 8)

\* 4 of 5 applications are healthy, exactly 80%: validation passed
C11_WitnessExactlyEightyPercent ==
    /\ last_attempt.task = "validate_deployment"
    /\ last_attempt.calls = <<"exit_0", "exit_0">>
    /\ last_attempt.stdout = <<5, 4>>
    /\ return_value["validate_deployment"] = "True"

(***************************************************************************)
(* A run of either DAG (SpecDags)                                          *)
(***************************************************************************)
IsIngestionRun == DOMAIN ti_state = IngestionTasks

IsGitopsRun == DOMAIN ti_state = GitopsTasks

InitDags == InitIngestion \/ InitGitops

NextDags ==
    \/ IsIngestionRun /\ NextIngestion
    \/ IsGitopsRun /\ NextGitops

SpecDags == InitDags /\ [][NextDags]_vars

\* the gitops tasks whose callable or script invokes kubectl
KubectlTasks == GitopsTasks \ {"send_deployment_notification"}

\* those that invoke it through subprocess.run(..., check=True)
CheckedTasks ==
    {"check_prerequisites", "trigger_gitops_workflow",
     "monitor_deployment_progress", "validate_deployment"}

SomeNonZeroExit(calls) == \E i \in DOMAIN calls : calls[i] = "exit_nonzero"

AllZeroExit(calls) == calls # << >> /\ \A i \in DOMAIN calls : calls[i] = "exit_0"

InvocationErrors == {"CalledProcessError", "OSError"}

RECURSIVE SumOver(_, _)
SumOver(S, f) ==
    IF S = {} THEN 0
    ELSE LET x == CHOOSE y \in S : TRUE
         IN  f[x] + SumOver(S \ {x}, f)

\* attempts of the argo submit tasks that did not end in success
FailedArgoAttempts ==
    SumOver(workflow_tasks,
            [t \in workflow_tasks |->
                try_number[t] - (IF ti_state[t] = "success" THEN 1 ELSE 0)])

\* every non-zero exit of argo submit failed an attempt, every zero exit
\* made the attempt succeed
ArgoExitDeterminesSuccess == argo_failures = FailedArgoAttempts

\* C7 as stated: in every task that invokes kubectl or argo, a non-zero exit of
\* an invocation fails the attempt, and when all invocations exit zero the
\* attempt does not fail because of the invocation.
C7_ExitCodeDeterminesSuccess ==
    /\ IsIngestionRun => ArgoExitDeterminesSuccess
    /\ IsGitopsRun /\ last_attempt.task \in KubectlTasks =>
           /\ SomeNonZeroExit(last_attempt.calls) => last_attempt.result = "failed"
           /\ AllZeroExit(last_attempt.calls) =>
                  last_attempt.raised \notin InvocationErrors

\* C7 (amended): the exit code decides for the argo submit tasks and for the
\* four callables that run kubectl with check=True (a non-zero exit raises
\* CalledProcessError and fails the attempt; all-zero exits never fail it
\* because of the invocation).  cleanup_previous_deployment (check=False) and
\* continuous_health_check (script status is that of its last sleep, after ten
\* iterations that go on whatever kubectl exited with) succeed
\* whatever kubectl exits with, and in wait_for_workflow_completion a non-zero
\* exit is read as phase "Unknown" and the loop goes on polling.
C7_CheckedExitCodeDeterminesSuccess ==
    /\ IsIngestionRun => ArgoExitDeterminesSuccess
    /\ IsGitopsRun /\ last_attempt.task \in CheckedTasks =>
           /\ SomeNonZeroExit(last_attempt.calls) =>
                  /\ last_attempt.result = "failed"
                  /\ last_attempt.raised = "CalledProcessError"
           /\ AllZeroExit(last_attempt.calls) =>
                  last_attempt.raised \notin InvocationErrors
    /\ IsGitopsRun /\ last_attempt.task = "cleanup_previous_deployment" =>
           /\ last_attempt.result = "success"
           /\ ti_state[last_attempt.task] = "success"
    /\ IsGitopsRun =>
           ti_state["continuous_health_check"] \notin {"failed", "up_for_retry"}
    /\ IsGitopsRun /\ last_attempt.task = "continuous_health_check" =>
           /\ last_attempt.result \in {"running", "success"}
           /\ last_attempt.result = "running" =>
                  ti_state["continuous_health_check"] = "running"
           /\ last_attempt.result = "success" =>
                  /\ ti_state["continuous_health_check"] = "success"
                  /\ health_checks = HealthCheckIterations
    /\ IsGitopsRun /\ last_attempt.task = "wait_for_workflow_completion"
           /\ SomeNonZeroExit(last_attempt.calls) =>
           /\ last_attempt.result = "running"
           /\ ti_state["wait_for_workflow_completion"] = "running"

\* kubectl apply exited non-zero in trigger_gitops_workflow and the attempt
\* failed with CalledProcessError
C7_WitnessCheckedCallFailsTask ==
    /\ IsGitopsRun
    /\ last_attempt.task = "trigger_gitops_workflow"
    /\ last_attempt.calls = <<"exit_nonzero">>
    /\ last_attempt.raised = "CalledProcessError"
    /\ ti_state["trigger_gitops_workflow"] = "up_for_retry"

(***************************************************************************)
(* CapabilityTester.run_comprehensive_tests (data_ingestion, data_quality) *)
(***************************************************************************)
Components == {"data_ingestion", "data_quality"}

\* test_suites of the data_ingestion tester: (suite name, test function)
ingestion_test_suites ==
    << [name |-> "Agent Capability Tests",       function |-> "test_agent_capabilities"],
       [name |-> "ML Model Tests",               function |-> "test_ml_models"],
       [name |-> "Workflow Tests",               function |-> "test_workflows"],
       [name |-> "Orchestrator Tests",           function |-> "test_orchestrators"],
       [name |-> "AI Prompt Tests",              function |-> "test_ai_prompts"],
       [name |-> "Configuration Template Tests", function |-> "test_config_templates"],
       [name |-> "Integration Tests",            function |-> "test_integration"],
       [name |-> "Performance Tests",            function |-> "test_performance"],
       [name |-> "Compliance Tests",             function |-> "test_compliance"] >>

\* test_suites of the data_quality tester
quality_test_suites ==
    << [name |-> "Agent Capability Tests",       function |-> "test_agent_capabilities"],
       [name |-> "ML Model Tests",               function |-> "test_ml_models"],
       [name |-> "Workflow Tests",               function |-> "test_workflows"],
       [name |-> "Orchestrator Tests",           function |-> "test_orchestrators"],
       [name |-> "AI Prompt Tests",              function |-> "test_ai_prompts"],
       [name |-> "Configuration Template Tests", function |-> "test_config_templates"],
       [name |-> "Integration Tests",            function |-> "test_integration"],
       [name |-> "Performance Tests",            function |-> "test_performance"],
       [name |-> "Compliance Tests",             function |-> "test_compliance"],
       [name |-> "Quality Metrics Tests",        function |-> "test_quality_metrics"] >>

test_suites(c) ==
    IF c = "data_ingestion" THEN ingestion_test_suites ELSE quality_test_suites

\* the section of the configuration whose items a test function iterates over
section_key(function) ==
    CASE function = "test_agent_capabilities" -> "agent_tests"
      [] function = "test_ml_models"          -> "ml_model_tests"
      [] function = "test_workflows"          -> "workflow_tests"
      [] function = "test_orchestrators"      -> "orchestrator_tests"
      [] function = "test_ai_prompts"         -> "ai_prompt_tests"
      [] function = "test_config_templates"   -> "config_template_tests"

SectionKeys ==
    {"agent_tests", "ml_model_tests", "workflow_tests", "orchestrator_tests",
     "ai_prompt_tests", "config_template_tests"}

\* what the YAML document holds under a section key: nothing, null, or a list
\* where a mapping is expected
SectionKinds == {"absent", "null", "list"}

AllAbsent == [k \in SectionKeys |-> "absent"]

\* the configuration file: missing, empty (yaml.safe_load gives None), or a
\* mapping
ConfigFiles ==
    {[exists |-> FALSE, top |-> "mapping", sections |-> AllAbsent],
     [exists |-> TRUE, top |-> "null", sections |-> AllAbsent]}
    \cup {[exists |-> TRUE, top |-> "mapping", sections |-> sec] :
              sec \in [SectionKeys -> SectionKinds]}

\* _load_config: {} when the file is not found, else yaml.safe_load(f)
_load_config(file) ==
    IF ~file.exists
    THEN [top |-> "mapping", sections |-> AllAbsent]
    ELSE [top |-> file.top, sections |-> file.sections]

SuiteReturns == [raised |-> None]

SuiteRaises(e) == [raised |-> e]

\* the test functions: self.config.get(key, {}) and a loop over .items() of it;
\* test_integration only reads the section; test_performance, test_compliance
\* and test_quality_metrics return literals
test_function(function, cfg) ==
    IF function \in {"test_performance", "test_compliance", "test_quality_metrics"}
    THEN SuiteReturns
    ELSE IF cfg.top = "null"
    THEN SuiteRaises("'NoneType' object has no attribute 'get'")
    ELSE IF function = "test_integration"
    THEN SuiteReturns
    ELSE IF cfg.sections[section_key(function)] = "null"
    THEN SuiteRaises("'NoneType' object has no attribute 'items'")
    ELSE IF cfg.sections[section_key(function)] = "list"
    THEN SuiteRaises("'list' object has no attribute 'items'")
    ELSE SuiteReturns

\* a variant of the runner's handler that records the dict the other handlers
\* return
suite_failure_entry_as_error(e) == [status |-> "error", message |-> e]

\* except Exception as e: overall_results[suite_name] = {...}
suite_failure_entry(e) == [status |-> "failed", error |-> e]

\* the entry of a suite that returned; the measured time and the returned
\* results are not looked into
suite_completed_entry ==
    [status |-> "completed", execution_time |-> "elapsed", results |-> "suite_results"]

\* one iteration of 'for suite_name, test_function in test_suites'
run_suite(results, suite, cfg) ==
    LET outcome == test_function(suite.function, cfg)
    IN  Append(results,
               [suite |-> suite.name,
                entry |-> IF outcome.raised = None
                          THEN suite_completed_entry
                          ELSE suite_failure_entry(outcome.raised)])

CountStatus(results, status) ==
    Cardinality({i \in DOMAIN results : results[i].entry.status = status})

\* _generate_comprehensive_report: the summary counts and the results; the
\* coverage, performance and compliance sections are literals
_generate_comprehensive_report(results) ==
    [test_execution_summary |->
         [total_test_suites |-> Len(results),
          successful_suites |-> CountStatus(results, "completed"),
          failed_suites     |-> CountStatus(results, "failed")],
     detailed_results |-> results]

\* CapabilityTester(): the constructor loads the configuration
InitCapabilityRun ==
    /\ RulesIdle
    /\ RunIdle
    /\ NoCluster
    /\ ScalingIdle
    /\ tester = "CapabilityTester"
    /\ component \in Components
    /\ \E file \in ConfigFiles : config = _load_config(file)
    /\ overall_results = << >>
    /\ report = NoReport
    /\ last_call = NoCall

\* the loop of run_comprehensive_tests is at its next suite
RunNextSuite ==
    /\ report = NoReport
    /\ Len(overall_results) < Len(test_suites(component))
    /\ overall_results' =
           run_suite(overall_results,
                     test_suites(component)[Len(overall_results) + 1], config)
    /\ UNCHANGED <<rulesVars, runVars, testerSetup, report, last_call, scalingVars>>

\* after the loop: the report is generated, saved and returned
ReturnReport ==
    /\ report = NoReport
    /\ Len(overall_results) = Len(test_suites(component))
    /\ report' = _generate_comprehensive_report(overall_results)
    /\ UNCHANGED <<rulesVars, runVars, testerSetup, overall_results, last_call,
                   scalingVars>>

NextCapabilityRun == RunNextSuite \/ ReturnReport

SpecCapabilityRun == InitCapabilityRun /\ [][NextCapabilityRun]_vars

\* C8: run_comprehensive_tests runs the suites of its fixed list once each and
\* in list order, whether or not an earlier suite raised; every entry has
\* status "completed" or "failed"; the report has one detailed_results entry
\* per suite and successful_suites + failed_suites = total_test_suites, which
\* is 9 for data_ingestion and 10 for data_quality.
C8_EverySuiteRunsOnce ==
    LET suites  == test_suites(component)
        summary == report.test_execution_summary
    IN  /\ Len(overall_results) <= Len(suites)
        /\ \A i \in DOMAIN overall_results :
               /\ overall_results[i].suite = suites[i].name
               /\ overall_results[i].entry.status \in {"completed", "failed"}
               /\ overall_results[i].entry.status = "failed" <=>
                      test_function(suites[i].function, config).raised # None
        /\ report # NoReport =>
               /\ report.detailed_results = overall_results
               /\ Len(report.detailed_results) = Len(suites)
               /\ summary.successful_suites + summary.failed_suites
                      = summary.total_test_suites
               /\ summary.total_test_suites =
                      IF component = "data_ingestion" THEN 9 ELSE 10

\* a data_quality report of 10 suites whose first suite failed and whose later
\* suites still ran
C8_WitnessReportAfterFailedSuite ==
    /\ component = "data_quality"
    /\ report # NoReport
    /\ report.test_execution_summary.total_test_suites = 10
    /\ report.test_execution_summary.failed_suites = 2
    /\ report.test_execution_summary.successful_suites = 8
    /\ report.detailed_results[1].entry.status = "failed"
    /\ report.detailed_results[10].entry.status = "completed"

(***************************************************************************)
(* Tester operations that catch exceptions                                 *)
(***************************************************************************)
OpReturns(value) == [raised |-> None, value |-> value]

OpRaises(e) == [raised |-> e, value |-> << >>]

\* what a configuration key holds where the code expects a mapping
MappingKinds == {"absent", "mapping", "null", "list"}

\* str(e) of the AttributeError raised by value.attr for a null or a list
NoAttribute(kind, attr) ==
    (IF kind = "null" THEN "'NoneType'" ELSE "'list'")
        \o " object has no attribute '" \o attr \o "'"

\* time.time() - start_time: the measured duration, not looked into
Elapsed == "elapsed"

\* dict[key] = value
WithKey(dict, key, value) == (key :> value) @@ dict

\* ---- data_ingestion CapabilityTester
_test_scheduler_capability(capability, test_config) ==
    IF capability \in {"schedule_optimization", "dependency_validation"}
    THEN OpReturns([status |-> "success", metrics |-> "metrics"])
    ELSE OpReturns([status |-> "capability_not_found"])

AuthTypes == {"oauth2_flows", "jwt_algorithms", "api_keys"}

\* auth_tests.items() raises when authentication_tests is null or a list
_test_connector_capability(capability, test_config) ==
    IF capability = "authentication_methods"
    THEN IF test_config.authentication_tests.kind \in {"null", "list"}
         THEN OpRaises(NoAttribute(test_config.authentication_tests.kind, "items"))
         ELSE OpReturns(
                  [status |-> "success",
                   authentication_results |->
                       test_config.authentication_tests.keys
                           \cap {"oauth2_flows", "jwt_algorithms"},
                   metrics |-> "metrics"])
    ELSE OpReturns([status |-> "capability_not_found"])

\* what test_config holds under key: absent when the key is not there
KindUnder(test_config, key) ==
    IF key \in DOMAIN test_config THEN test_config[key].kind ELSE "absent"

\* targets.get("throughput", ...) raises when performance_targets is null or
\* a list
_test_collector_capability(capability, test_config) ==
    IF capability = "throughput_optimization"
    THEN IF KindUnder(test_config, "performance_targets") \in {"null", "list"}
         THEN OpRaises(NoAttribute(KindUnder(test_config, "performance_targets"), "get"))
         ELSE OpReturns([status |-> "success", metrics |-> "metrics"])
    ELSE IF capability = "source_intelligence"
    THEN OpReturns([status |-> "success", metrics |-> "metrics"])
    ELSE OpReturns([status |-> "capability_not_found"])

_test_converter_capability(capability, test_config) ==
    IF capability \in {"format_recognition", "conversion_accuracy"}
    THEN OpReturns([status |-> "success", metrics |-> "metrics"])
    ELSE OpReturns([status |-> "capability_not_found"])

_test_merger_capability(capability, test_config) ==
    IF capability \in {"conflict_resolution", "deduplication_accuracy"}
    THEN OpReturns([status |-> "success", metrics |-> "metrics"])
    ELSE OpReturns([status |-> "capability_not_found"])

_test_retry_capability(capability, test_config) ==
    IF capability = "failure_classification"
    THEN OpReturns([status |-> "success", metrics |-> "metrics"])
    ELSE OpReturns([status |-> "capability_not_found"])

\* a variant of the handler that reports under "error"
capability_error_result_without_message(e) ==
    [status |-> "error", error |-> e, execution_time |-> Elapsed]

\* except Exception as e: of _test_agent_capability, _test_ml_model and
\* _execute_workflow_scenario
capability_error_result(e) ==
    [status |-> "error", message |-> e, execution_time |-> Elapsed]

_test_agent_capability(agent_name, capability, test_config) ==
    LET result ==
            IF agent_name = "data_scheduler"
            THEN _test_scheduler_capability(capability, test_config)
            ELSE IF agent_name = "data_connector"
            THEN _test_connector_capability(capability, test_config)
            ELSE IF agent_name = "data_collector"
            THEN _test_collector_capability(capability, test_config)
            ELSE IF agent_name = "data_converter"
            THEN _test_converter_capability(capability, test_config)
            ELSE IF agent_name = "data_merger"
            THEN _test_merger_capability(capability, test_config)
            ELSE IF agent_name = "data_fetch_retry"
            THEN _test_retry_capability(capability, test_config)
            ELSE OpReturns([status  |-> "not_implemented",
                            message |-> "Testing for " \o agent_name \o " not implemented"])
    IN  IF result.raised = None
        THEN [caught |-> None,
              returned |-> WithKey(result.value, "execution_time", Elapsed)]
        ELSE [caught |-> result.raised,
              returned |-> capability_error_result(result.raised)]

\* config.get("performance_metrics", {}) raises when the model's test
\* configuration is null or a list
_test_ml_model(model_name, test_config_kind) ==
    IF model_name = "connection_optimization_model"
    THEN IF test_config_kind \in {"null", "list"}
         THEN [caught |-> NoAttribute(test_config_kind, "get"),
               returned |-> capability_error_result(NoAttribute(test_config_kind, "get"))]
         ELSE [caught |-> None,
               returned |-> [status |-> "success", metrics |-> "metrics",
                             benchmarks_met |-> TRUE]]
    ELSE IF model_name \in {"format_recognition_model", "retry_strategy_model"}
    THEN [caught |-> None, returned |-> [status |-> "success", metrics |-> "metrics"]]
    ELSE [caught |-> None, returned |-> [status |-> "model_not_implemented"]]

\* ---- KubernetesIntegrationTester (data_ingestion, data_quality)
IngestionNamespace ==
    << "base-data-ingestion-agent-data-collector",
       "base-data-ingestion-agent-data-merger",
       "base-data-ingestion-agent-data-scheduler",
       "base-data-ingestion-orchestrator-ingestion-manager" >>

QualityNamespace ==
    << "base-data-quality-agent-data-validator",
       "base-data-quality-agent-quality-assessor",
       "base-data-quality-agent-rule-enforcer",
       "base-data-quality-orchestrator-quality-manager" >>

\* sub in s, for strings
Contains(sub, s) ==
    \E i \in 1..(Len(s) - Len(sub) + 1) : SubSeq(s, i, i + Len(sub) - 1) = sub

\* 'agent' in d.metadata.name
ContainsAgent(name) == Contains("agent", name)

\* 'data-ingestion' in d.metadata.name
ContainsDataIngestion(name) == Contains("data-ingestion", name)

\* the ML model deployments of the data_quality namespace that are looked at
QualityModels == << "base-data-quality-model-anomaly-detection" >>

\* 'model' in d.metadata.name
ContainsModel(name) == Contains("model", name)

\* 'data-quality' in d.metadata.name
ContainsDataQuality(name) == Contains("data-quality", name)

\* an optional count of the API object: << >> is None
OptionalCounts == {<< >>} \cup {<<n>> : n \in 0..MaxReplicas}

\* x or 0
OrZero(x) == IF x = << >> THEN 0 ELSE x[1]

DeploymentsNamed(name) ==
    IF ContainsAgent(name) \/ ContainsModel(name)
    THEN {[name |-> name, ready_replicas |-> ready, replicas |-> desired] :
              ready \in OptionalCounts, desired \in OptionalCounts}
    ELSE {[name |-> name, ready_replicas |-> <<1>>, replicas |-> <<1>>]}

\* the lists list_namespaced_deployment can return for a namespace
RECURSIVE DeploymentLists(_)
DeploymentLists(names) ==
    IF names = << >> THEN {<< >>}
    ELSE LET rest == DeploymentLists(Tail(names))
         IN  rest \cup {<<d>> \o r : d \in DeploymentsNamed(Head(names)), r \in rest}

ApiErrors == {"(403) Reason: Forbidden", "Connection refused"}

\* the outcome of list_namespaced_deployment(self.namespace)
ApiResponses(names) ==
    {OpRaises(e) : e \in ApiErrors} \cup {OpReturns(l) : l \in DeploymentLists(names)}

\* a status that is healthy as soon as enough replicas are ready
deployment_status_at_least(d) ==
    IF OrZero(d.ready_replicas) >= OrZero(d.replicas) THEN "healthy" ELSE "degraded"

deployment_status(d) ==
    IF OrZero(d.ready_replicas) = OrZero(d.replicas) THEN "healthy" ELSE "degraded"

\* results[name] of test_agent_deployments
agent_deployment_entry(d) ==
    [desired_replicas |-> OrZero(d.replicas),
     ready_replicas |-> OrZero(d.ready_replicas),
     status |-> deployment_status(d),
     creation_timestamp |-> "isoformat",
     image |-> "image",
     resources |-> "resources"]

\* results[name] = {...} for each deployment of the list
RECURSIVE ByName(_)
ByName(deployments) ==
    IF deployments = << >> THEN << >>
    ELSE WithKey(ByName(Tail(deployments)),
                 Head(deployments).name, agent_deployment_entry(Head(deployments)))

\* data_ingestion KubernetesIntegrationTester.test_agent_deployments
test_agent_deployments(client, response) ==
    IF ~client
    THEN [caught |-> None,
          returned |-> [status |-> "skipped", reason |-> "kubernetes_client_unavailable"]]
    ELSE IF response.raised # None
    THEN [caught |-> response.raised,
          returned |-> [status |-> "error", error |-> response.raised]]
    ELSE LET agent_deployments ==
                 SelectSeq(response.value,
                           LAMBDA d : ContainsAgent(d.name) /\ ContainsDataIngestion(d.name))
             results == ByName(agent_deployments)
             healthy == {n \in DOMAIN results : results[n].status = "healthy"}
         IN  [caught |-> None,
              returned |->
                  [status |-> IF healthy = DOMAIN results THEN "healthy" ELSE "degraded",
                   agents |-> results,
                   total_agents |-> Cardinality(DOMAIN results),
                   healthy_agents |-> Cardinality(healthy)]]

expected_agents ==
    << "base-data-quality-agent-data-validator",
       "base-data-quality-agent-quality-assessor",
       "base-data-quality-agent-rule-enforcer",
       "base-data-quality-agent-anomaly-detector",
       "base-data-quality-agent-compliance-monitor",
       "base-data-quality-agent-quality-reporter" >>

\* data_quality KubernetesIntegrationTester.test_quality_agent_deployments:
\* the handler adds "error" to the results gathered so far and the function
\* returns them
test_quality_agent_deployments(client, response) ==
    IF ~client
    THEN [caught |-> None,
          returned |-> [status |-> "skipped", reason |-> "kubernetes_client_unavailable"]]
    ELSE IF response.raised # None
    THEN [caught |-> response.raised, returned |-> [error |-> response.raised]]
    ELSE LET quality_agents ==
                 SelectSeq(response.value,
                           LAMBDA d : ContainsAgent(d.name) /\ ContainsDataQuality(d.name))
             entries == ByName(quality_agents)
             missing_agents ==
                 SelectSeq(expected_agents, LAMBDA a : a \notin DOMAIN entries)
             summary ==
                 [total_expected_agents |-> Len(expected_agents),
                  total_deployed_agents |-> Len(quality_agents),
                  deployment_coverage |->
                      ToString(Len(quality_agents)) \o "/"
                          \o ToString(Len(expected_agents)),
                  missing_agents |-> missing_agents,
                  overall_health |->
                      IF Len(missing_agents) = 0 THEN "healthy" ELSE "partial"]
         IN  [caught |-> None,
              returned |-> WithKey(entries, "deployment_summary", summary)]

\* self.namespace
Namespace(c) ==
    IF c = "data_ingestion" THEN IngestionNamespace ELSE QualityNamespace

\* a data_ingestion CapabilityTester without a configuration file, or a
\* KubernetesIntegrationTester of either component after setup_kubernetes
\* the data_quality namespace with every expected agent deployed and ready
AllExpectedAgents ==
    [i \in DOMAIN expected_agents |->
         [name |-> expected_agents[i], ready_replicas |-> <<1>>, replicas |-> <<1>>]]

InitTesterCalls ==
    /\ RulesIdle
    /\ RunIdle
    /\ ScalingIdle
    /\ overall_results = << >>
    /\ report = NoReport
    /\ last_call = NoCall
    /\ \/ /\ tester = "CapabilityTester"
          /\ component = "data_ingestion"
          /\ config = _load_config([exists |-> FALSE, top |-> "mapping",
                                    sections |-> AllAbsent])
          /\ NoCluster
       \/ /\ tester = "KubernetesIntegrationTester"
          /\ component \in Components
          /\ config = NoConfig
          /\ k8s_apps_v1 \in BOOLEAN
          /\ deployments_response \in
                 ApiResponses(Namespace(component))
                     \cup {OpReturns(AllExpectedAgents) : c \in {component} \ {"data_ingestion"}}
          /\ storage_cluster = NoStorageCluster
          /\ storage_run = NoStorageRun

Called(operation, outcome) ==
    /\ last_call' = [operation |-> operation,
                     caught    |-> outcome.caught,
                     returned  |-> outcome.returned]
    /\ UNCHANGED <<rulesVars, runVars, testerSetup, overall_results, report,
                   scalingVars>>

AuthenticationTests ==
    {[kind |-> k, keys |-> {}] : k \in {"absent", "null", "list"}}
    \cup {[kind |-> "mapping", keys |-> ks] : ks \in SUBSET AuthTypes}

CallTestAgentCapability ==
    /\ tester = "CapabilityTester"
    /\ \E agent_name \in {"data_scheduler", "data_connector", "data_collector",
                          "data_converter", "data_merger", "data_fetch_retry",
                          "data_archiver"},
          capability \in {"schedule_optimization", "authentication_methods",
                          "throughput_optimization", "format_recognition",
                          "conflict_resolution", "failure_classification",
                          "rate_limiting"},
          auth \in AuthenticationTests,
          targets \in MappingKinds :
           Called("_test_agent_capability",
                  _test_agent_capability(agent_name, capability,
                                         [authentication_tests |-> auth,
                                          performance_targets |-> [kind |-> targets]]))

CallTestMlModel ==
    /\ tester = "CapabilityTester"
    /\ \E model_name \in {"connection_optimization_model", "format_recognition_model",
                          "retry_strategy_model", "anomaly_model"},
          kind \in MappingKinds \ {"absent"} :
           Called("_test_ml_model", _test_ml_model(model_name, kind))

CallTestAgentDeployments ==
    /\ tester = "KubernetesIntegrationTester"
    /\ component = "data_ingestion"
    /\ Called("test_agent_deployments",
              test_agent_deployments(k8s_apps_v1, deployments_response))

CallTestQualityAgentDeployments ==
    /\ tester = "KubernetesIntegrationTester"
    /\ component = "data_quality"
    /\ Called("test_quality_agent_deployments",
              test_quality_agent_deployments(k8s_apps_v1, deployments_response))

NextTesterCalls ==
    \/ CallTestAgentCapability
    \/ CallTestMlModel
    \/ CallTestAgentDeployments
    \/ CallTestQualityAgentDeployments

SpecTesterCalls == InitTesterCalls /\ [][NextTesterCalls]_vars

HasKey(dict, key) == key \in DOMAIN dict

\* C6 as stated: whenever a tester operation catches an exception e, the dict
\* it returns contains "status": "error" and "message": str(e).
C6_UniformErrorDict ==
    last_call.caught # None =>
        /\ HasKey(last_call.returned, "status")
        /\ last_call.returned["status"] = "error"
        /\ HasKey(last_call.returned, "message")
        /\ last_call.returned["message"] = last_call.caught

\* C6 (amended): what an operation returns after catching an exception e
\* depends on the operation.  _test_agent_capability and _test_ml_model return
\* status "error", "message": str(e) and the elapsed time;
\* test_agent_deployments of the data_ingestion Kubernetes tester returns
\* exactly {"status": "error", "error": str(e)}; test_quality_agent_deployments
\* of the data_quality Kubernetes tester returns its results with
\* "error": str(e) added, and neither "status" nor "message"; _load_config,
\* which caught FileNotFoundError when the tester was constructed, returned
\* the empty dict, with no key at all.
C6_ErrorDictByOperation ==
    /\ last_call.caught # None =>
        /\ last_call.operation \in {"_test_agent_capability", "_test_ml_model"} =>
               /\ DOMAIN last_call.returned = {"status", "message", "execution_time"}
               /\ last_call.returned["status"] = "error"
               /\ last_call.returned["message"] = last_call.caught
        /\ last_call.operation = "test_agent_deployments" =>
               /\ DOMAIN last_call.returned = {"status", "error"}
               /\ last_call.returned["status"] = "error"
               /\ last_call.returned["error"] = last_call.caught
        /\ last_call.operation = "test_quality_agent_deployments" =>
               /\ HasKey(last_call.returned, "error")
               /\ last_call.returned["error"] = last_call.caught
               /\ ~HasKey(last_call.returned, "status")
               /\ ~HasKey(last_call.returned, "message")
    /\ tester = "CapabilityTester" =>
           /\ config.top = "mapping"
           /\ \A key \in DOMAIN config.sections : config.sections[key] = "absent"

\* _test_agent_capability caught the AttributeError of a null
\* authentication_tests and returned it under "message"
C6_WitnessCaughtAttributeError ==
    /\ last_call.operation = "_test_agent_capability"
    /\ last_call.caught = "'NoneType' object has no attribute 'items'"
    /\ last_call.returned["status"] = "error"
    /\ last_call.returned["message"] = "'NoneType' object has no attribute 'items'"

\* the deployments of the response that test_agent_deployments reports on
ReportedDeployments ==
    {i \in 1..Len(deployments_response.value) :
        /\ ContainsAgent(deployments_response.value[i].name)
        /\ ContainsDataIngestion(deployments_response.value[i].name)}

\* C22: in every result of test_agent_deployments that is neither an error
\* nor skipped, each matching deployment has an entry whose counts are the
\* deployment's (a missing count read as 0) and whose status is 'healthy' iff
\* ready_replicas = desired_replicas; total_agents is the number of entries,
\* healthy_agents the number of healthy ones, so healthy_agents <=
\* total_agents; and the overall status is 'healthy' iff healthy_agents =
\* total_agents (also when there is no entry) and 'degraded' otherwise.
C22_AgentDeploymentHealth ==
    LET result == last_call.returned
    IN  (/\ last_call.operation = "test_agent_deployments"
         /\ result.status \notin {"error", "skipped"}) =>
            /\ DOMAIN result.agents =
                   {deployments_response.value[i].name : i \in ReportedDeployments}
            /\ \A i \in ReportedDeployments :
                   LET d     == deployments_response.value[i]
                       entry == result.agents[d.name]
                   IN  /\ entry.ready_replicas = OrZero(d.ready_replicas)
                       /\ entry.desired_replicas = OrZero(d.replicas)
            /\ \A n \in DOMAIN result.agents :
                   /\ result.agents[n].status \in {"healthy", "degraded"}
                   /\ (result.agents[n].status = "healthy") <=>
                          (result.agents[n].ready_replicas
                               = result.agents[n].desired_replicas)
            /\ result.total_agents = Cardinality(DOMAIN result.agents)
            /\ result.healthy_agents =
                   Cardinality({n \in DOMAIN result.agents :
                                   result.agents[n].status = "healthy"})
            /\ result.healthy_agents <= result.total_agents
            /\ result.status \in {"healthy", "degraded"}
            /\ (result.status = "healthy") <=>
                   (result.healthy_agents = result.total_agents)

\* three agents were reported, one of them with more ready replicas than
\* desired: it is degraded, and so is the overall status
C22_WitnessOverProvisionedDegraded ==
    /\ last_call.operation = "test_agent_deployments"
    /\ last_call.returned.status = "degraded"
    /\ last_call.returned.total_agents = 3
    /\ last_call.returned.healthy_agents = 2
    /\ \E n \in DOMAIN last_call.returned.agents :
           last_call.returned.agents[n].ready_replicas
               > last_call.returned.agents[n].desired_replicas

(***************************************************************************)
(* data_ingestion KubernetesIntegrationTester.test_pod_scaling with        *)
(* _scale_deployment and _wait_for_scale (SpecScaling). The coroutine is   *)
(* followed from one API call to the next; time is in whole seconds.       *)
(***************************************************************************)
\* _wait_for_scale(..., timeout: int = 60)
ScaleTimeout == 60

\* await asyncio.sleep(2)
PollInterval == 2

\* the longest an API call takes, in seconds
MaxLatency == 1

\* 'data-collector' in d.metadata.name
ContainsDataCollector(name) == Contains("data-collector", name)

\* the deployments of the namespace that the scaling test is run against
ScalingNamespace ==
    << "base-data-ingestion-orchestrator-ingestion-manager",
       "base-data-ingestion-agent-data-collector" >>

\* deployment.status.ready_replicas as read_namespaced_deployment reports it
ReadyReplicas == {<< >>} \cup {<<n>> : n \in 0..(MaxReplicas + 2)}

\* an API call returns (None) or raises
ApiCallOutcomes == {None} \cup ApiErrors

\* str(TimeoutError(f"Scaling to {target_replicas} did not complete within {timeout}s"))
scale_timeout_error(target_replicas) ==
    "Scaling to " \o ToString(target_replicas) \o " did not complete within "
        \o ToString(ScaleTimeout) \o "s"

\* except Exception as e: return {"status": "error", "error": str(e)}
pod_scaling_error(e) ==
    [caught |-> e, returned |-> [status |-> "error", error |-> e]]

pod_scaling_skipped(reason) ==
    [caught |-> None, returned |-> [status |-> "skipped", reason |-> reason]]

\* the dict returned after both waits
pod_scaling_success(frame, scale_down_time) ==
    [caught |-> None,
     returned |->
         [status |-> "success",
          deployment |-> frame.deployment,
          original_replicas |-> frame.original_replicas,
          scale_up_replicas |-> frame.original_replicas + 2,
          scale_up_time |-> frame.scale_up_time,
          scale_down_time |-> scale_down_time,
          scaling_responsive |-> frame.scale_up_time < 30 /\ scale_down_time < 30]]

\* what list_namespaced_deployment does before the test: it raises, or lists
\* deployments that are at rest (as many replicas ready as desired)
ScalingResponses ==
    {r \in ApiResponses(ScalingNamespace) :
        \A i \in 1..Len(r.value) : r.value[i].ready_replicas = r.value[i].replicas}

InitScaling ==
    /\ RulesIdle
    /\ RunIdle
    /\ ScalingIdle
    /\ overall_results = << >>
    /\ report = NoReport
    /\ last_call = NoCall
    /\ tester = "KubernetesIntegrationTester"
    /\ component = "data_ingestion"
    /\ config = NoConfig
    /\ k8s_apps_v1 \in BOOLEAN
    /\ deployments_response \in ScalingResponses
    /\ storage_cluster = NoStorageCluster
    /\ storage_run = NoStorageRun

\* test_pod_scaling returns, its local variables being those of frame
PodScalingReturnsFrom(frame, outcome) ==
    /\ last_call' = [operation |-> "test_pod_scaling",
                     caught    |-> outcome.caught,
                     returned  |-> outcome.returned]
    /\ scaling' = [frame EXCEPT !.pc = "returned"]
    /\ UNCHANGED scale_requests

PodScalingReturns(outcome) == PodScalingReturnsFrom(scaling, outcome)

\* a reached-target test that also accepts more ready replicas than asked for
scale_reached_or_exceeded(ready_replicas, target_replicas) ==
    ready_replicas >= target_replicas

\* if ready_replicas == target_replicas, after ready_replicas = ... or 0
scale_reached(ready_replicas, target_replicas) ==
    ready_replicas = target_replicas

\* _scale_deployment(deployment_name, replicas) went through
PodScalingRequests(replicas, frame) ==
    /\ scale_requests' = Append(scale_requests, replicas)
    /\ scaling' = frame
    /\ UNCHANGED last_call

\* test_pod_scaling from its call to the first _wait_for_scale
StartPodScaling ==
    /\ tester = "KubernetesIntegrationTester"
    /\ component = "data_ingestion"
    /\ scaling.pc = "idle"
    /\ IF ~k8s_apps_v1
       THEN PodScalingReturns(pod_scaling_skipped("kubernetes_client_unavailable"))
       ELSE IF deployments_response.raised # None
       THEN PodScalingReturns(pod_scaling_error(deployments_response.raised))
       ELSE LET agent_deployments ==
                    SelectSeq(deployments_response.value,
                              LAMBDA d : ContainsAgent(d.name)
                                             /\ ContainsDataCollector(d.name))
                test_deployment == Head(agent_deployments)
                original_replicas == test_deployment.replicas
            IN  IF agent_deployments = << >>
                THEN PodScalingReturns(pod_scaling_skipped("no_agent_deployments_found"))
                ELSE IF original_replicas = << >>
                THEN PodScalingReturns(pod_scaling_error(
                         "unsupported operand type(s) for +: 'NoneType' and 'int'"))
                ELSE \E patch \in ApiCallOutcomes :
                         IF patch # None
                         THEN PodScalingReturns(pod_scaling_error(patch))
                         ELSE PodScalingRequests(
                                  original_replicas[1] + 2,
                                  [pc |-> "wait_scale_up",
                                   deployment |-> test_deployment.name,
                                   original_replicas |-> original_replicas[1],
                                   target_replicas |-> original_replicas[1] + 2,
                                   elapsed |-> 0,
                                   ready_replicas |-> 0,
                                   wait_outcome |-> "polling",
                                   scale_up_time |-> 0])
    /\ UNCHANGED <<rulesVars, runVars, testerSetup, overall_results, report>>

\* one test of the while condition of _wait_for_scale and, when it holds, one
\* pass through the loop body; when the wait returns, test_pod_scaling goes
\* on to its next API call
WaitForScaleStep ==
    /\ scaling.pc \in {"wait_scale_up", "wait_scale_down"}
    /\ IF ~(scaling.elapsed < ScaleTimeout)
       THEN PodScalingReturnsFrom(
                [scaling EXCEPT !.wait_outcome = "TimeoutError"],
                pod_scaling_error(scale_timeout_error(scaling.target_replicas)))
       ELSE \E latency \in 0..MaxLatency :
            \E read \in ApiCallOutcomes :
            \E ready \in ReadyReplicas :
                LET seen         == [scaling EXCEPT !.ready_replicas = OrZero(ready)]
                    elapsed_time == scaling.elapsed + latency
                    returned     ==
                        [seen EXCEPT
                             !.wait_outcome = "returned",
                             !.scale_up_time =
                                 IF scaling.pc = "wait_scale_up" THEN elapsed_time ELSE @]
                IN  IF read # None
                    THEN PodScalingReturnsFrom(
                             [scaling EXCEPT !.wait_outcome = "raised"],
                             pod_scaling_error(read))
                    ELSE IF scale_reached(seen.ready_replicas, scaling.target_replicas)
                    THEN     IF scaling.pc = "wait_scale_up"
                             THEN \E patch \in ApiCallOutcomes :
                                      IF patch # None
                                      THEN PodScalingReturnsFrom(
                                               returned, pod_scaling_error(patch))
                                      ELSE PodScalingRequests(
                                               scaling.original_replicas,
                                               [seen EXCEPT
                                                    !.pc = "wait_scale_down",
                                                    !.target_replicas =
                                                        scaling.original_replicas,
                                                    !.elapsed = 0,
                                                    !.scale_up_time = elapsed_time])
                             ELSE PodScalingReturnsFrom(
                                      returned,
                                      pod_scaling_success(returned, elapsed_time))
                    ELSE /\ scaling' = [seen EXCEPT
                                            !.elapsed = @ + latency + PollInterval]
                         /\ UNCHANGED <<last_call, scale_requests>>
    /\ UNCHANGED <<rulesVars, runVars, testerSetup, overall_results, report>>

NextScaling == StartPodScaling \/ WaitForScaleStep

SpecScaling == InitScaling /\ [][NextScaling]_vars

\* C20: whenever test_pod_scaling has returned, with status 'success' or
\* 'error', after having requested original_replicas + 2, the last replica
\* count it requested is original_replicas, so the deployment is left at its
\* original size, also when the wait for the scale-up timed out or an API call
\* raised.
C20_ScalingRestoresReplicas ==
    (scaling.pc = "returned" /\ scale_requests # << >>) =>
        /\ last_call.returned.status \in {"success", "error"}
        /\ scale_requests[1] = scaling.original_replicas + 2
        /\ scale_requests[Len(scale_requests)] = scaling.original_replicas

\* the pod scaling coroutine is scheduled as long as it has not returned
FairScaling == SpecScaling /\ WF_vars(WaitForScaleStep)

Waiting == scaling.pc \in {"wait_scale_up", "wait_scale_down"}

\* the step ends a call of _wait_for_scale with a return value
WaitReturned ==
    \/ scaling.pc = "wait_scale_up" /\ scaling'.pc = "wait_scale_down"
    \/ scaling'.wait_outcome = "returned"

\* the elapsed time the call returned
WaitReturnValue ==
    IF scaling.pc = "wait_scale_up" THEN scaling'.scale_up_time
    ELSE last_call'.returned.scale_down_time

\* C21: every call of _wait_for_scale ends. In each pass of its loop it
\* returns the elapsed time when the ready_replicas it read (None read as 0)
\* equals target_replicas, and otherwise sleeps 2 seconds before it reads
\* again; it returns a value only in a pass that read the target, started
\* before the timeout; it raises TimeoutError exactly when the loop condition
\* is tested with 60 seconds or more elapsed.
C21_WaitForScaleTerminates ==
    /\ [][Waiting =>
             /\ WaitReturned =>
                    /\ scaling'.ready_replicas = scaling.target_replicas
                    /\ scaling.elapsed < ScaleTimeout
                    /\ WaitReturnValue >= scaling.elapsed
             /\ (scaling'.wait_outcome = "TimeoutError") <=>
                    (scaling.elapsed >= ScaleTimeout)
             /\ scaling'.wait_outcome = "TimeoutError" =>
                    last_call'.returned.error =
                        scale_timeout_error(scaling.target_replicas)
             /\ (scaling'.pc = scaling.pc) =>
                    /\ scaling'.ready_replicas # scaling.target_replicas
                    /\ scaling'.elapsed >= scaling.elapsed + PollInterval]_vars
    /\ (scaling.pc = "wait_scale_up") ~> (scaling.pc # "wait_scale_up")
    /\ (scaling.pc = "wait_scale_down") ~> (scaling.pc # "wait_scale_down")

\* the wait for the scale-up returned after 30 seconds of polling, and the
\* wait for the scale-down timed out
C21_WitnessReturnThenTimeout ==
    /\ scaling.pc = "returned"
    /\ scaling.scale_up_time = 30
    /\ scaling.wait_outcome = "TimeoutError"
    /\ Len(scale_requests) = 2

(***************************************************************************)
(* data_ingestion KubernetesIntegrationTester.generate_kubernetes_report   *)
(* (SpecReport): the three tests in turn, then the report. The pod scaling *)
(* test is the coroutine of SpecScaling; the report is written once it has *)
(* returned.                                                               *)
(***************************************************************************)
\* the services list_namespaced_service may list
ServicePool == {"base-data-ingestion-service", "kubernetes"}

\* service_tests[service_name] of test_service_connectivity;
\* _test_service_endpoint returns True
service_test_entry ==
    [cluster_ip |-> "cluster_ip", ports |-> "ports", connectivity |-> TRUE]

\* data_ingestion KubernetesIntegrationTester.test_service_connectivity
test_service_connectivity(client, raised, services) ==
    IF ~client
    THEN [status |-> "skipped", reason |-> "kubernetes_client_unavailable"]
    ELSE IF raised # None
    THEN [status |-> "error", error |-> raised]
    ELSE LET service_tests ==
                 [n \in {s \in services : ContainsDataIngestion(s)} |->
                      service_test_entry]
         IN  [status |-> "success",
              services |-> service_tests,
              total_services |-> Cardinality(DOMAIN service_tests)]

\* test_statuses = [test.get("status", "unknown") for test in report["tests"].values()]
test_statuses(tests) ==
    << tests.agent_deployments.status,
       tests.pod_scaling.status,
       tests.service_connectivity.status >>

\* the report of generate_kubernetes_report, from the results of its tests;
\* KUBERNETES_AVAILABLE is the module constant: the kubernetes package was
\* imported
kubernetes_report(KUBERNETES_AVAILABLE, tests) ==
    LET statuses == test_statuses(tests)
        successful == {i \in DOMAIN statuses : statuses[i] = "success"}
    IN  [namespace |-> "base-data-ingestion",
         kubernetes_available |-> KUBERNETES_AVAILABLE,
         tests |-> tests,
         overall_status |->
             IF successful = DOMAIN statuses THEN "success" ELSE "partial",
         summary |->
             [total_tests |-> Len(statuses),
              successful_tests |-> Cardinality(successful),
              kubernetes_integration |-> KUBERNETES_AVAILABLE]]

\* what the listing of test_agent_deployments does: it raises, lists nothing
\* (-1), or lists the collector with these ready and desired replicas
FirstListings ==
    {<<e, -1, -1>> : e \in ApiCallOutcomes}
    \cup {<<None, ready, desired>> : ready \in 0..MaxReplicas, desired \in 0..MaxReplicas}

\* what list_namespaced_service does: it raises, or lists services
ServiceAnswers ==
    {<<e, {}>> : e \in ApiErrors} \cup {<<None, S>> : S \in SUBSET ServicePool}

\* the listing of test_pod_scaling: it raises, lists nothing, or lists the
\* collector at rest with one replica
ReportResponses ==
    {r \in ScalingResponses :
        \A i \in 1..Len(r.value) :
            ContainsDataCollector(r.value[i].name) /\ r.value[i].replicas = <<1>>}

InitReport == InitScaling /\ deployments_response \in ReportResponses

\* generate_kubernetes_report after test_pod_scaling has returned: the
\* service test, the statuses and the summary. test_agent_deployments ran
\* first, on a listing of its own (the API may answer the two listings
\* differently); its result has no influence on the tests after it, so the
\* listing is drawn here. k8s_core_v1 is set and unset together with
\* k8s_apps_v1, and a client is set only if the package was imported.
GenerateKubernetesReport ==
    /\ tester = "KubernetesIntegrationTester"
    /\ component = "data_ingestion"
    /\ scaling.pc = "returned"
    /\ \E KUBERNETES_AVAILABLE \in {b \in BOOLEAN : k8s_apps_v1 => b},
          listing \in FirstListings,
          answer \in ServiceAnswers :
           LET first_listing ==
                   IF listing[1] # None
                   THEN OpRaises(listing[1])
                   ELSE OpReturns(IF listing[2] >= 0
                                  THEN <<[name |-> ScalingNamespace[2],
                                          ready_replicas |-> <<listing[2]>>,
                                          replicas |-> <<listing[3]>>]>>
                                  ELSE << >>)
           IN  /\ report' = kubernetes_report(
                      KUBERNETES_AVAILABLE,
                      [agent_deployments |->
                           test_agent_deployments(k8s_apps_v1, first_listing).returned,
                       pod_scaling |-> last_call.returned,
                       service_connectivity |->
                           test_service_connectivity(k8s_apps_v1, answer[1], answer[2])])
    /\ scaling' = [scaling EXCEPT !.pc = "reported"]
    /\ UNCHANGED <<rulesVars, runVars, testerSetup, overall_results, last_call,
                   scale_requests>>

NextReport == NextScaling \/ GenerateKubernetesReport

SpecReport == InitReport /\ [][NextReport]_vars

KubernetesReported == scaling.pc = "reported"

\* C23: the report has overall_status 'success' exactly when all agent
\* deployments are healthy, the pod scaling test succeeded and the service
\* connectivity test succeeded, and 'partial' otherwise; and
\* summary.successful_tests is the number of these three tests that passed.
C23_ReportStatusFollowsTests ==
    KubernetesReported =>
        LET passed ==
                {t \in {"agent_deployments", "pod_scaling", "service_connectivity"} :
                    report.tests[t].status =
                        IF t = "agent_deployments" THEN "healthy" ELSE "success"}
        IN  /\ report.overall_status =
                   IF Cardinality(passed) = 3 THEN "success" ELSE "partial"
            /\ report.summary.successful_tests = Cardinality(passed)

\* what the code does: a healthy agent_deployments result is not counted as a
\* success, so no report is a 'success'
C23_ObservedNeverSuccess ==
    KubernetesReported =>
        /\ report.overall_status = "partial"
        /\ report.summary.successful_tests =
               Cardinality({t \in {"pod_scaling", "service_connectivity"} :
                               report.tests[t].status = "success"})

(***************************************************************************)
(* CapabilityTester.test_agent_capabilities with a populated agent_tests   *)
(* section, as the first suite of run_comprehensive_tests (SpecAgentSuite) *)
(***************************************************************************)
\* the longest test_types and test_scenarios lists of an agent
MaxItems == 2

\* agents, capabilities and scenario names a configuration may name
ConfiguredAgents == {"data_scheduler", "data_connector"}

ConfiguredTestTypes == {"schedule_optimization", "authentication_methods"}

ScenarioNames == {"peak_load", "token_refresh"}

ListsOf(S) == UNION {[1..n -> S] : n \in 0..MaxItems}

\* the value of an agent in agent_tests
AgentTestConfigs ==
    {[test_types |-> types,
      test_scenarios |-> scenarios,
      authentication_tests |-> [kind |-> "absent", keys |-> {}]] :
        types \in ListsOf(ConfiguredTestTypes),
        scenarios \in ListsOf({[name |-> n] : n \in ScenarioNames})}

\* agent_tests: a mapping, in the order of the document
AgentTests ==
    {<< >>}
    \cup {<<[agent_name |-> a, test_config |-> c]>> :
              a \in ConfiguredAgents, c \in AgentTestConfigs}
    \cup {<<[agent_name |-> "data_scheduler", test_config |-> c],
            [agent_name |-> "data_connector", test_config |-> d]>> :
              c \in AgentTestConfigs,
              d \in {e \in AgentTestConfigs : Len(e.test_types) <= 1}}

\* self._run_agent_scenario: the class defines no such method, so the
\* attribute lookup raises
_run_agent_scenario(agent_name, scenario) ==
    OpRaises("'CapabilityTester' object has no attribute '_run_agent_scenario'")

\* for test_type in test_config.get("test_types", []): ...
RECURSIVE capability_results(_, _, _)
capability_results(agent_name, test_config, test_types) ==
    IF test_types = << >> THEN << >>
    ELSE LET n == Len(test_types)
         IN  WithKey(capability_results(agent_name, test_config,
                                        SubSeq(test_types, 1, n - 1)),
                     test_types[n],
                     _test_agent_capability(agent_name, test_types[n],
                                            test_config).returned)

\* for scenario in test_config.get("test_scenarios", []): ...
RECURSIVE scenario_results(_, _, _)
scenario_results(agent_name, scenarios, agent_results) ==
    IF scenarios = << >> THEN OpReturns(agent_results)
    ELSE LET scenario_result == _run_agent_scenario(agent_name, Head(scenarios))
         IN  IF scenario_result.raised # None
             THEN scenario_result
             ELSE scenario_results(agent_name, Tail(scenarios),
                                   WithKey(agent_results, Head(scenarios).name,
                                           scenario_result.value))

\* for agent_name, test_config in agent_tests.items(): ...
RECURSIVE agent_tests_results(_, _)
agent_tests_results(agent_tests, results) ==
    IF agent_tests = << >> THEN OpReturns(results)
    ELSE LET agent_name == Head(agent_tests).agent_name
             test_config == Head(agent_tests).test_config
             agent_results ==
                 scenario_results(
                     agent_name, test_config.test_scenarios,
                     capability_results(agent_name, test_config,
                                        test_config.test_types))
         IN  IF agent_results.raised # None
             THEN agent_results
             ELSE agent_tests_results(Tail(agent_tests),
                                      WithKey(results, agent_name,
                                              agent_results.value))

\* data_ingestion CapabilityTester.test_agent_capabilities
test_agent_capabilities(cfg) == agent_tests_results(cfg.agent_tests, << >>)

\* overall_results[suite_name] of a suite that returned suite_results
suite_completed_with(suite_results) ==
    [status |-> "completed", execution_time |-> Elapsed, results |-> suite_results]

\* CapabilityTester() with a configuration whose agent_tests is a mapping
InitAgentSuite ==
    /\ RulesIdle
    /\ RunIdle
    /\ NoCluster
    /\ ScalingIdle
    /\ tester = "CapabilityTester"
    /\ component = "data_ingestion"
    /\ \E agent_tests \in AgentTests :
           config = [top |-> "mapping",
                     sections |-> [AllAbsent EXCEPT !["agent_tests"] = "mapping"],
                     agent_tests |-> agent_tests]
    /\ overall_results = << >>
    /\ report = NoReport
    /\ last_call = NoCall

\* the first iteration of the suite loop of run_comprehensive_tests:
\* ("Agent Capability Tests", self.test_agent_capabilities)
RunAgentCapabilitySuite ==
    /\ tester = "CapabilityTester"
    /\ overall_results = << >>
    /\ LET outcome == test_agent_capabilities(config)
       IN  overall_results' =
               <<[suite |-> ingestion_test_suites[1].name,
                  entry |-> IF outcome.raised = None
                            THEN suite_completed_with(outcome.value)
                            ELSE suite_failure_entry(outcome.raised)]>>
    /\ UNCHANGED <<rulesVars, runVars, testerSetup, report, last_call, scalingVars>>

NextAgentSuite == RunAgentCapabilitySuite

SpecAgentSuite == InitAgentSuite /\ [][NextAgentSuite]_vars

\* C24: once the 'Agent Capability Tests' suite has run, it is 'completed'
\* and, for every agent of agent_tests, the agent's results hold an entry
\* under each name of its test_scenarios and under each of its test_types.
C24_ScenariosAreRun ==
    overall_results # << >> =>
        LET entry == overall_results[1].entry
        IN  /\ overall_results[1].suite = "Agent Capability Tests"
            /\ entry.status = "completed"
            /\ \A i \in DOMAIN config.agent_tests :
                   LET agent == config.agent_tests[i]
                   IN  /\ agent.agent_name \in DOMAIN entry.results
                       /\ \A j \in DOMAIN agent.test_config.test_scenarios :
                              agent.test_config.test_scenarios[j].name
                                  \in DOMAIN entry.results[agent.agent_name]
                       /\ \A j \in DOMAIN agent.test_config.test_types :
                              agent.test_config.test_types[j]
                                  \in DOMAIN entry.results[agent.agent_name]

\* what the code does: the suite completes exactly when no agent has a test
\* scenario, and fails with the AttributeError otherwise
C24_ObservedScenarioFailsSuite ==
    overall_results # << >> =>
        LET entry == overall_results[1].entry
            none == \A i \in DOMAIN config.agent_tests :
                        config.agent_tests[i].test_config.test_scenarios = << >>
        IN  /\ entry.status = IF none THEN "completed" ELSE "failed"
            /\ ~none => entry.error =
                   "'CapabilityTester' object has no attribute '_run_agent_scenario'"
            /\ none => \A i \in DOMAIN config.agent_tests :
                   LET agent == config.agent_tests[i]
                   IN  /\ agent.agent_name \in DOMAIN entry.results
                       /\ DOMAIN entry.results[agent.agent_name] =
                              {agent.test_config.test_types[j] :
                                   j \in DOMAIN agent.test_config.test_types}

(***************************************************************************)
(* data_storage StorageCapabilityTester (SpecStorage):                     *)
(* run_comprehensive_tests, followed from one test to the next, with       *)
(* test_agent_health, test_ml_model_performance and                        *)
(* test_integration_workflow                                               *)
(***************************************************************************)
\* self.agents
storage_agents ==
    << "base-data-storage-agent-tier-manager",
       "base-data-storage-agent-backup-manager",
       "base-data-storage-agent-compression-optimizer",
       "base-data-storage-agent-retrieval-optimizer",
       "base-data-storage-agent-lifecycle-manager",
       "base-data-storage-agent-compliance-archiver" >>

\* self.models
storage_models ==
    << "base-data-storage-model-access-prediction",
       "base-data-storage-model-compression-optimization",
       "base-data-storage-model-storage-cost",
       "base-data-storage-model-lifecycle-prediction",
       "base-data-storage-model-tier-recommendation" >>

StorageAgentNames == {storage_agents[i] : i \in DOMAIN storage_agents}

StorageModelNames == {storage_models[i] : i \in DOMAIN storage_models}

\* how many workloads of the namespace are not a running pod that answers
\* 200, or a deployment with its one replica ready
MaxDeviations == 1

\* what the cluster answers for an agent: list_namespaced_pod raises or lists
\* pods with these phases; the health endpoint answers with a status code, or
\* the request raises (0)
AgentInOrder == [raised |-> None, phases |-> <<"Running">>, health |-> 200]

AgentDeviations ==
    {[raised |-> "(403) Reason: Forbidden", phases |-> << >>, health |-> 0],
     [raised |-> None, phases |-> << >>, health |-> 0],
     [raised |-> None, phases |-> <<"Pending", "Running">>, health |-> 200],
     [raised |-> None, phases |-> <<"Running", "Pending">>, health |-> 503],
     [raised |-> None, phases |-> <<"Running">>, health |-> 0]}

\* what the cluster answers for a model: list_namespaced_deployment raises or
\* lists deployments with these status.replicas and status.ready_replicas
\* (<< >> is None)
ModelInOrder ==
    [raised |-> None, deployments |-> <<[replicas |-> <<1>>, ready_replicas |-> <<1>>]>>]

ModelDeviations ==
    {[raised |-> "(403) Reason: Forbidden", deployments |-> << >>],
     [raised |-> None, deployments |-> << >>],
     [raised |-> None,
      deployments |-> <<[replicas |-> <<1>>, ready_replicas |-> << >>]>>],
     [raised |-> None,
      deployments |-> <<[replicas |-> << >>, ready_replicas |-> << >>]>>]}

\* the deviations of at most MaxDeviations workloads
DeviationMaps ==
    UNION {{f \in [D -> AgentDeviations \cup ModelDeviations] :
               \A w \in D : f[w] \in IF w \in StorageAgentNames
                                     THEN AgentDeviations ELSE ModelDeviations} :
           D \in {E \in SUBSET (StorageAgentNames \cup StorageModelNames) :
                     Cardinality(E) <= MaxDeviations}}

\* whether load_incluster_config succeeds, and the answers per workload
StorageClusters ==
    {[config_loads |-> loads,
      agents |-> [a \in StorageAgentNames |->
                      IF a \in DOMAIN f THEN f[a] ELSE AgentInOrder],
      models |-> [m \in StorageModelNames |->
                      IF m \in DOMAIN f THEN f[m] ELSE ModelInOrder]] :
        loads \in BOOLEAN, f \in DeviationMaps}

\* a health check that accepts any answer of the endpoint
_check_health_endpoint_any_answer(health) == health # 0

\* return response.status == 200; except: return False
_check_health_endpoint(health) == health = 200

\* the keys of the performance dict of the agent's capability test; the
\* values are literals and measured times
agent_performance(agent_name) ==
    IF Contains("tier-manager", agent_name)
    THEN {"tier_transitions", "cost_optimization", "tier_accuracy", "response_time_ms"}
    ELSE IF Contains("backup-manager", agent_name)
    THEN {"backup_speed_mbps", "recovery_time_minutes", "backup_success_rate"}
    ELSE IF Contains("compression-optimizer", agent_name)
    THEN {"compression_ratio", "compression_speed_mbps", "storage_savings_percent"}
    ELSE IF Contains("retrieval-optimizer", agent_name)
    THEN {"avg_query_time_ms", "cache_hit_rate", "throughput_queries_per_second"}
    ELSE IF Contains("lifecycle-manager", agent_name)
    THEN {"automated_transitions", "policy_compliance", "lifecycle_accuracy"}
    ELSE IF Contains("compliance-archiver", agent_name)
    THEN {"compliance_score", "audit_trail_coverage", "retention_accuracy"}
    ELSE {}

\* StorageCapabilityTester.test_agent_health
test_agent_health(agent_name, answers) ==
    LET test_result ==
            [agent |-> agent_name, status |-> "unknown", health_check |-> FALSE,
             performance |-> {}, errors |-> << >>]
    IN  IF answers.raised # None
        THEN [caught |-> answers.raised,
              returned |-> [test_result EXCEPT !.errors = <<answers.raised>>,
                                               !.status = "error"]]
        ELSE IF answers.phases = << >>
        THEN [caught |-> None,
              returned |-> [test_result EXCEPT !.errors = <<"No pods found">>,
                                               !.status = "missing"]]
        ELSE IF answers.phases[1] # "Running"
        THEN [caught |-> None,
              returned |-> [test_result EXCEPT
                                !.errors = <<"Pod not running: " \o answers.phases[1]>>,
                                !.status = "unhealthy"]]
        ELSE IF _check_health_endpoint(answers.health)
        THEN [caught |-> None,
              returned |-> [test_result EXCEPT !.health_check = TRUE,
                                               !.status = "healthy",
                                               !.performance =
                                                   agent_performance(agent_name)]]
        ELSE [caught |-> None, returned |-> test_result]

\* accuracy and predictions of the simulated inference
model_inference(model_name) ==
    IF Contains("access-prediction", model_name)
    THEN [accuracy |-> "91.3", predictions |-> 1000]
    ELSE IF Contains("compression-optimization", model_name)
    THEN [accuracy |-> "88.7", predictions |-> 500]
    ELSE IF Contains("storage-cost", model_name)
    THEN [accuracy |-> "93.1", predictions |-> 750]
    ELSE IF Contains("lifecycle-prediction", model_name)
    THEN [accuracy |-> "89.5", predictions |-> 300]
    ELSE IF Contains("tier-recommendation", model_name)
    THEN [accuracy |-> "92.8", predictions |-> 800]
    ELSE [accuracy |-> "0.0", predictions |-> 0]

\* StorageCapabilityTester.test_ml_model_performance
test_ml_model_performance(model_name, answers) ==
    LET test_result ==
            [model |-> model_name, status |-> "unknown", accuracy |-> "0.0",
             inference_time_ms |-> "0.0", predictions |-> 0, errors |-> << >>]
    IN  IF answers.raised # None
        THEN [caught |-> answers.raised,
              returned |-> [test_result EXCEPT !.errors = <<answers.raised>>,
                                               !.status = "error"]]
        ELSE IF answers.deployments = << >>
        THEN [caught |-> None,
              returned |-> [test_result EXCEPT
                                !.errors = <<"Model deployment not found">>,
                                !.status = "missing"]]
        ELSE IF answers.deployments[1].ready_replicas # answers.deployments[1].replicas
        THEN [caught |-> None,
              returned |-> [test_result EXCEPT
                                !.errors = <<"Model not fully deployed">>,
                                !.status = "unhealthy"]]
        ELSE [caught |-> None,
              returned |-> [test_result EXCEPT
                                !.accuracy = model_inference(model_name).accuracy,
                                !.predictions = model_inference(model_name).predictions,
                                !.inference_time_ms = Elapsed,
                                !.status = "healthy"]]

\* the stages of test_integration_workflow, each an asyncio.sleep
IntegrationStages == 5

\* StorageCapabilityTester.test_integration_workflow: the simulated stages
test_integration_workflow ==
    [status |-> "success", stages_completed |-> IntegrationStages, total_time_seconds |-> Elapsed,
     data_processed_gb |-> "15.7", errors |-> << >>]

\* an overall health that is content with the agents or the models
overall_health_either(healthy_agents, healthy_models) ==
    IF healthy_agents = Len(storage_agents) \/ healthy_models = Len(storage_models)
    THEN "healthy" ELSE "degraded"

\* "healthy" if healthy_agents == len(self.agents) and
\* healthy_models == len(self.models) else "degraded"
overall_health(healthy_agents, healthy_models) ==
    IF healthy_agents = Len(storage_agents) /\ healthy_models = Len(storage_models)
    THEN "healthy" ELSE "degraded"

\* the results recorded for the given names, as a dict
ResultsOf(results, names) ==
    [n \in {results[i].suite : i \in {j \in DOMAIN results : results[j].suite \in names}}
         |-> (CHOOSE i \in DOMAIN results : results[i].suite = n)]

HealthyAmong(results, names) ==
    Cardinality({i \in DOMAIN results :
                    results[i].suite \in names /\ results[i].entry.status = "healthy"})

\* test_results of run_comprehensive_tests once the integration test returned
storage_test_results(results, integration_result) ==
    LET healthy_agents == HealthyAmong(results, StorageAgentNames)
        healthy_models == HealthyAmong(results, StorageModelNames)
        agents == ResultsOf(results, StorageAgentNames)
        models == ResultsOf(results, StorageModelNames)
    IN  [timestamp |-> "isoformat",
         namespace |-> "base-data-storage",
         agents |-> [n \in DOMAIN agents |-> results[agents[n]].entry],
         models |-> [n \in DOMAIN models |-> results[models[n]].entry],
         integration |-> integration_result,
         summary |->
             [healthy_agents |->
                  ToString(healthy_agents) \o "/" \o ToString(Len(storage_agents)),
              healthy_models |->
                  ToString(healthy_models) \o "/" \o ToString(Len(storage_models)),
              integration_status |-> integration_result.status,
              overall_health |-> overall_health(healthy_agents, healthy_models)]]

\* StorageCapabilityTester()
InitStorage ==
    /\ RulesIdle
    /\ RunIdle
    /\ ScalingIdle
    /\ tester = "StorageCapabilityTester"
    /\ component = "data_storage"
    /\ k8s_apps_v1 = FALSE
    /\ deployments_response = NoResponse
    /\ storage_cluster \in StorageClusters
    /\ storage_run = NoStorageRun
    /\ config = NoConfig
    /\ overall_results = << >>
    /\ report = NoReport
    /\ last_call = NoCall

\* if not await self.initialize_k8s_client(): return {"error": ...}
StorageInitFails ==
    /\ tester = "StorageCapabilityTester"
    /\ ~storage_cluster.config_loads
    /\ report = NoReport
    /\ report' = [error |-> "Failed to initialize Kubernetes client"]
    /\ UNCHANGED <<rulesVars, runVars, testerSetup, overall_results, last_call,
                   scalingVars>>

\* the agent the agents loop is at
CurrentAgent == storage_agents[Len(overall_results) + 1]

\* test_results["agents"][agent] = agent_result: test_agent_health returned
AgentResultRecorded ==
    LET outcome == test_agent_health(CurrentAgent, storage_cluster.agents[CurrentAgent])
    IN  /\ overall_results' =
               Append(overall_results,
                      [suite |-> CurrentAgent, entry |-> outcome.returned])
        /\ last_call' = [operation |-> "test_agent_health",
                         caught |-> outcome.caught,
                         returned |-> outcome.returned]
        /\ storage_run' = [storage_run EXCEPT !.pc = "tests", !.sleeps_left = 0]

\* the awaits of asyncio.sleep in the capability test of the agent
capability_sleeps(agent_name) ==
    IF Contains("tier-manager", agent_name) THEN 1
    ELSE IF Contains("backup-manager", agent_name) THEN 1
    ELSE IF Contains("compression-optimizer", agent_name) THEN 1
    ELSE IF Contains("retrieval-optimizer", agent_name) THEN 100
    ELSE IF Contains("lifecycle-manager", agent_name) THEN 5
    ELSE 0

\* an iteration of 'for agent in self.agents' up to the first await of
\* test_agent_health: the pods are listed, and the health endpoint is asked
\* when the first pod is Running
AgentHealthListsPods ==
    /\ tester = "StorageCapabilityTester"
    /\ storage_cluster.config_loads
    /\ storage_run.pc = "tests"
    /\ Len(overall_results) < Len(storage_agents)
    /\ LET answers == storage_cluster.agents[CurrentAgent]
       IN  IF answers.raised = None /\ answers.phases # << >>
                  /\ answers.phases[1] = "Running"
           THEN /\ storage_run' = [storage_run EXCEPT !.pc = "health_endpoint"]
                /\ UNCHANGED <<overall_results, last_call>>
           ELSE AgentResultRecorded
    /\ UNCHANGED <<rulesVars, runVars, storageSetup, report, scalingVars>>

\* the request of _check_health_endpoint is over: the result is returned, or
\* the capability test runs up to its first sleep
AgentHealthEndpointAnswers ==
    /\ tester = "StorageCapabilityTester"
    /\ storage_run.pc = "health_endpoint"
    /\ IF _check_health_endpoint(storage_cluster.agents[CurrentAgent].health)
              /\ capability_sleeps(CurrentAgent) > 0
       THEN /\ storage_run' = [storage_run EXCEPT
                                   !.pc = "capability_test",
                                   !.sleeps_left = capability_sleeps(CurrentAgent)]
            /\ UNCHANGED <<overall_results, last_call>>
       ELSE AgentResultRecorded
    /\ UNCHANGED <<rulesVars, runVars, storageSetup, report, scalingVars>>

\* a sleep of the capability test is over: the next sleep, or the result
AgentCapabilitySleepReturns ==
    /\ tester = "StorageCapabilityTester"
    /\ storage_run.pc = "capability_test"
    /\ IF storage_run.sleeps_left > 1
       THEN /\ storage_run' = [storage_run EXCEPT !.sleeps_left = @ - 1]
            /\ UNCHANGED <<overall_results, last_call>>
       ELSE AgentResultRecorded
    /\ UNCHANGED <<rulesVars, runVars, storageSetup, report, scalingVars>>

\* one iteration of 'for model in self.models'; test_ml_model_performance
\* awaits nothing
TestNextModel ==
    /\ tester = "StorageCapabilityTester"
    /\ storage_cluster.config_loads
    /\ Len(overall_results) >= Len(storage_agents)
    /\ Len(overall_results) < Len(storage_agents) + Len(storage_models)
    /\ LET model == storage_models[Len(overall_results) - Len(storage_agents) + 1]
           outcome == test_ml_model_performance(model, storage_cluster.models[model])
       IN  /\ overall_results' =
                  Append(overall_results, [suite |-> model, entry |-> outcome.returned])
           /\ last_call' = [operation |-> "test_ml_model_performance",
                            caught |-> outcome.caught,
                            returned |-> outcome.returned]
    /\ UNCHANGED <<rulesVars, runVars, testerSetup, report, scalingVars>>

\* test_integration_workflow: the sleep of a stage but the last is over
IntegrationStageCompletes ==
    /\ tester = "StorageCapabilityTester"
    /\ storage_cluster.config_loads
    /\ Len(overall_results) = Len(storage_agents) + Len(storage_models)
    /\ report = NoReport
    /\ storage_run.stages_completed < IntegrationStages - 1
    /\ storage_run' = [storage_run EXCEPT !.stages_completed = @ + 1]
    /\ UNCHANGED <<rulesVars, runVars, storageSetup, overall_results, report,
                   last_call, scalingVars>>

\* the sleep of the last stage is over: test_integration_workflow returns,
\* the summary is made and the results are returned
FinishStorageTests ==
    /\ tester = "StorageCapabilityTester"
    /\ storage_cluster.config_loads
    /\ Len(overall_results) = Len(storage_agents) + Len(storage_models)
    /\ report = NoReport
    /\ storage_run.stages_completed = IntegrationStages - 1
    /\ storage_run' = [storage_run EXCEPT !.pc = "returned",
                                          !.stages_completed = @ + 1]
    /\ report' = storage_test_results(overall_results, test_integration_workflow)
    /\ last_call' = [operation |-> "test_integration_workflow",
                     caught |-> None,
                     returned |-> test_integration_workflow]
    /\ UNCHANGED <<rulesVars, runVars, storageSetup, overall_results, scalingVars>>

NextStorage ==
    \/ StorageInitFails
    \/ AgentHealthListsPods
    \/ AgentHealthEndpointAnswers
    \/ AgentCapabilitySleepReturns
    \/ TestNextModel
    \/ IntegrationStageCompletes
    \/ FinishStorageTests

SpecStorage == InitStorage /\ [][NextStorage]_vars

\* the answers the cluster gave for the agent of the last test_agent_health
AgentAnswers == storage_cluster.agents[last_call.returned.agent]

FirstPodRunning ==
    /\ AgentAnswers.raised = None
    /\ AgentAnswers.phases # << >>
    /\ AgentAnswers.phases[1] = "Running"

\* what the four statuses of a test_agent_health result stand for
AgentStatusMeaning ==
    LET result == last_call.returned
    IN  /\ result.status = "missing" <=>
               AgentAnswers.raised = None /\ AgentAnswers.phases = << >>
        /\ result.status = "unhealthy" <=>
               /\ AgentAnswers.raised = None
               /\ AgentAnswers.phases # << >>
               /\ AgentAnswers.phases[1] # "Running"
        /\ result.status = "healthy" <=> FirstPodRunning /\ AgentAnswers.health = 200
        /\ result.status = "error" <=> last_call.caught # None
        /\ result.health_check <=> result.status = "healthy"

\* C25 as stated: every result of test_agent_health has status healthy,
\* unhealthy, missing or error, with 'missing' iff no pod matches, 'unhealthy'
\* iff the first pod is not Running, 'healthy' iff it is Running and the
\* health endpoint answered 200, 'error' iff an exception was caught, and
\* health_check is True iff the status is 'healthy'.
C25_FourAgentStatuses ==
    last_call.operation = "test_agent_health" =>
        /\ last_call.returned.status \in {"healthy", "unhealthy", "missing", "error"}
        /\ AgentStatusMeaning

\* C25 amended: the statuses are healthy, unhealthy, missing, error and
\* unknown; 'unknown' iff the first pod is Running and the health endpoint
\* did not answer 200; the other four are as stated, and health_check is
\* True iff the status is 'healthy'.
C25_AgentStatusesWithUnknown ==
    last_call.operation = "test_agent_health" =>
        /\ last_call.returned.status
               \in {"healthy", "unhealthy", "missing", "error", "unknown"}
        /\ AgentStatusMeaning
        /\ last_call.returned.status = "unknown" <=>
               FirstPodRunning /\ AgentAnswers.health # 200
        /\ last_call.returned.status = "unknown" =>
               /\ ~last_call.returned.health_check
               /\ last_call.returned.errors = << >>

\* a running pod whose health endpoint answered 503: the status stays unknown
C25_WitnessRunningButUnanswered ==
    /\ last_call.operation = "test_agent_health"
    /\ last_call.returned.status = "unknown"
    /\ AgentAnswers.phases[1] = "Running"
    /\ AgentAnswers.health = 503

StorageRunReturned == report # NoReport

\* C26: when the Kubernetes client cannot be initialised the run returns
\* {'error': ...} and no test is run; otherwise the 6 agents are tested in
\* order, then the 5 models, then the integration workflow, and
\* summary.overall_health is 'healthy' iff all 6 agents and all 5 models have
\* status 'healthy', whatever the integration status, else 'degraded'.
C26_StorageRunSummary ==
    LET order == storage_agents \o storage_models
    IN  /\ ~storage_cluster.config_loads =>
               /\ overall_results = << >>
               /\ last_call = NoCall
               /\ StorageRunReturned =>
                      report = [error |-> "Failed to initialize Kubernetes client"]
        /\ Len(overall_results) <= Len(order)
        /\ \A i \in DOMAIN overall_results : overall_results[i].suite = order[i]
        /\ last_call.operation = "test_integration_workflow" =>
               Len(overall_results) = Len(order)
        /\ storage_run.stages_completed > 0 => Len(overall_results) = Len(order)
        /\ storage_run.pc \in {"health_endpoint", "capability_test"} =>
               Len(overall_results) < Len(storage_agents)
        /\ (storage_cluster.config_loads /\ StorageRunReturned) =>
               /\ Len(overall_results) = 11
               /\ DOMAIN report.agents = StorageAgentNames
               /\ DOMAIN report.models = StorageModelNames
               /\ \A i \in DOMAIN overall_results :
                      (IF i <= 6 THEN report.agents ELSE report.models)[order[i]]
                          = overall_results[i].entry
               /\ report.integration = last_call.returned
               /\ report.summary.overall_health \in {"healthy", "degraded"}
               /\ report.summary.overall_health = "healthy" <=>
                      \A i \in DOMAIN overall_results :
                          overall_results[i].entry.status = "healthy"

\* all five models healthy and one agent missing: degraded, although the
\* integration workflow succeeded
C26_WitnessDegradedByOneAgent ==
    /\ StorageRunReturned
    /\ storage_cluster.config_loads
    /\ report.summary.overall_health = "degraded"
    /\ report.summary.healthy_agents = "5/6"
    /\ report.summary.healthy_models = "5/5"
    /\ report.summary.integration_status = "success"
    /\ report.agents["base-data-storage-agent-backup-manager"].status = "missing"

(***************************************************************************)
(* data_quality KubernetesIntegrationTester.run_comprehensive_k8s_tests    *)
(* (SpecK8sRun): the six suites and the report                             *)
(***************************************************************************)
\* test_suites of run_comprehensive_k8s_tests
k8s_test_suites ==
    << [name |-> "Quality Agent Deployments", function |-> "test_quality_agent_deployments"],
       [name |-> "ML Model Deployments",      function |-> "test_ml_model_deployments"],
       [name |-> "Workflow Executions",       function |-> "test_workflow_executions"],
       [name |-> "Orchestrator Coordination", function |-> "test_orchestrator_coordination"],
       [name |-> "Performance Under Load",    function |-> "test_performance_under_load"],
       [name |-> "Scalability Tests",         function |-> "test_scalability"] >>

\* the deployments of the namespace the run is made against
K8sRunNamespace ==
    << "base-data-quality-agent-data-validator" >> \o QualityModels

expected_models ==
    << "base-data-quality-model-completeness-prediction",
       "base-data-quality-model-accuracy-assessment",
       "base-data-quality-model-anomaly-detection",
       "base-data-quality-model-quality-scoring",
       "base-data-quality-model-regulatory-compliance" >>

\* results[name] of test_ml_model_deployments; the endpoint health and the
\* resource utilization are simulated literals
ml_model_entry(d) ==
    [deployment_status |-> deployment_status(d),
     ready_replicas |-> OrZero(d.ready_replicas),
     desired_replicas |-> OrZero(d.replicas),
     model_endpoint_health |-> [status |-> "healthy"],
     resource_utilization |-> "resource_utilization"]

\* data_quality KubernetesIntegrationTester.test_ml_model_deployments
test_ml_model_deployments(client, response) ==
    IF ~client
    THEN [status |-> "skipped", reason |-> "kubernetes_client_unavailable"]
    ELSE IF response.raised # None
    THEN [error |-> response.raised]
    ELSE LET ml_models ==
                 SelectSeq(response.value,
                           LAMBDA d : ContainsModel(d.name) /\ ContainsDataQuality(d.name))
             deployed_models == {ml_models[i].name : i \in DOMAIN ml_models}
             missing_models ==
                 SelectSeq(expected_models, LAMBDA m : m \notin deployed_models)
         IN  WithKey([n \in deployed_models |->
                          ml_model_entry(
                              ml_models[CHOOSE i \in DOMAIN ml_models :
                                            ml_models[i].name = n])],
                     "model_deployment_summary",
                     [total_expected_models |-> Len(expected_models),
                      total_deployed_models |-> Len(ml_models),
                      deployment_coverage |->
                          ToString(Len(ml_models)) \o "/"
                              \o ToString(Len(expected_models)),
                      missing_models |-> missing_models,
                      overall_model_health |->
                          IF Len(missing_models) = 0 THEN "healthy" ELSE "partial"])

\* test_workflow_executions, test_orchestrator_coordination and
\* test_performance_under_load: simulated checks of fixed lists; only the
\* summaries are kept
simulated_suite(function) ==
    CASE function = "test_workflow_executions" ->
             [workflow_summary |->
                  [total_workflows |-> 5, successful_executions |-> 5,
                   overall_workflow_health |-> "operational"]]
      [] function = "test_orchestrator_coordination" ->
             [orchestration_summary |->
                  [total_orchestrators |-> 5, healthy_orchestrators |-> 5,
                   coordination_efficiency |-> "optimal"]]
      [] function = "test_performance_under_load" ->
             [performance_summary |->
                  [load_test_scenarios |-> 3, performance_targets_met |-> 3,
                   overall_performance |-> "satisfactory"]]

\* a test_scalability whose API failure is not caught
test_scalability_uncaught(client, hpa_list) ==
    IF ~client
    THEN OpReturns([status |-> "skipped", reason |-> "kubernetes_client_unavailable"])
    ELSE OpRaises(hpa_list.raised)

\* data_quality KubernetesIntegrationTester.test_scalability: hpa_list is what
\* self.k8s_apps_v1.list_namespaced_horizontal_pod_autoscaler does
test_scalability(client, hpa_list) ==
    IF ~client
    THEN OpReturns([status |-> "skipped", reason |-> "kubernetes_client_unavailable"])
    ELSE IF hpa_list.raised # None
    THEN OpReturns([error |-> hpa_list.raised])
    ELSE LET quality_hpas ==
                 SelectSeq(hpa_list.value, LAMBDA hpa : ContainsDataQuality(hpa.name))
         IN  OpReturns(
                 WithKey(
                     WithKey([n \in {quality_hpas[i].name : i \in DOMAIN quality_hpas} |->
                                  [current_replicas |->
                                       quality_hpas[CHOOSE i \in DOMAIN quality_hpas :
                                                        quality_hpas[i].name = n]
                                           .current_replicas,
                                   scaling_status |->
                                       IF quality_hpas[CHOOSE i \in DOMAIN quality_hpas :
                                                           quality_hpas[i].name = n]
                                              .current_replicas # 0
                                       THEN "active" ELSE "inactive"]],
                             "scaling_behavior_test", "scaling_test_result"),
                     "scalability_summary",
                     [hpa_configurations |-> Len(quality_hpas),
                      auto_scaling_enabled |-> TRUE,
                      scaling_responsiveness |-> "good"]))

\* await test_function() for the functions of k8s_test_suites
k8s_test_function(function, client, response, hpa_list) ==
    CASE function = "test_quality_agent_deployments" ->
             OpReturns(test_quality_agent_deployments(client, response).returned)
      [] function = "test_ml_model_deployments" ->
             OpReturns(test_ml_model_deployments(client, response))
      [] function = "test_scalability" -> test_scalability(client, hpa_list)
      [] OTHER -> OpReturns(simulated_suite(function))

\* _generate_k8s_report: the counts of the summary and the results
_generate_k8s_report(results) ==
    [k8s_test_execution_summary |->
         [namespace |-> "base-data-quality",
          total_test_suites |-> Len(results),
          successful_suites |-> CountStatus(results, "completed"),
          failed_suites     |-> CountStatus(results, "failed")],
     detailed_results |-> results]

\* what the autoscaler listing does: the attribute is missing from the client,
\* the call raises, or it lists autoscalers
HpaErrors ==
    ApiErrors \cup
        {"'AppsV1Api' object has no attribute 'list_namespaced_horizontal_pod_autoscaler'"}

\* KubernetesIntegrationTester() of data_quality after setup_kubernetes
InitK8sRun ==
    /\ RulesIdle
    /\ RunIdle
    /\ ScalingIdle
    /\ tester = "KubernetesIntegrationTester"
    /\ component = "data_quality"
    /\ k8s_apps_v1 \in BOOLEAN
    /\ deployments_response \in ApiResponses(K8sRunNamespace)
    /\ storage_cluster = NoStorageCluster
    /\ storage_run = NoStorageRun
    /\ config = NoConfig
    /\ overall_results = << >>
    /\ report = NoReport
    /\ last_call = NoCall

\* the exception a test function of k8s_test_suites caught, if any
k8s_caught(function, client, response, hpa_list) ==
    IF ~client THEN None
    ELSE IF function \in {"test_quality_agent_deployments", "test_ml_model_deployments"}
    THEN response.raised
    ELSE IF function = "test_scalability" THEN hpa_list.raised
    ELSE None

\* one iteration of 'for suite_name, test_function in test_suites';
\* deployments_response is what list_namespaced_deployment does when the
\* suite calls it, and test_ml_model_deployments calls it again, after
\* test_quality_agent_deployments, with an answer of its own
RunNextK8sSuite ==
    /\ tester = "KubernetesIntegrationTester"
    /\ component = "data_quality"
    /\ report = NoReport
    /\ Len(overall_results) < Len(k8s_test_suites)
    /\ \E raised \in {None} \cup HpaErrors, listed \in BOOLEAN,
          current_replicas \in 0..MaxReplicas :
           LET suite == k8s_test_suites[Len(overall_results) + 1]
               hpa_list ==
                   [raised |-> raised,
                    value |-> IF listed
                              THEN <<[name |-> K8sRunNamespace[1],
                                      current_replicas |-> current_replicas]>>
                              ELSE << >>]
               outcome == k8s_test_function(suite.function, k8s_apps_v1,
                                            deployments_response, hpa_list)
           IN  /\ overall_results' =
                      Append(overall_results,
                             [suite |-> suite.name,
                              entry |-> IF outcome.raised = None
                                        THEN suite_completed_with(outcome.value)
                                        ELSE suite_failure_entry(outcome.raised)])
               /\ last_call' = [operation |-> suite.function,
                                caught |-> k8s_caught(suite.function, k8s_apps_v1,
                                                      deployments_response, hpa_list),
                                returned |-> outcome.value]
               /\ IF suite.function = "test_quality_agent_deployments"
                  THEN deployments_response' \in ApiResponses(K8sRunNamespace)
                  ELSE UNCHANGED deployments_response
    /\ UNCHANGED <<rulesVars, runVars, tester, component, k8s_apps_v1, storage_cluster,
                   storage_run, config, report, scalingVars>>

\* after the loop: the report is generated, saved and returned
ReturnK8sReport ==
    /\ tester = "KubernetesIntegrationTester"
    /\ component = "data_quality"
    /\ report = NoReport
    /\ Len(overall_results) = Len(k8s_test_suites)
    /\ report' = _generate_k8s_report(overall_results)
    /\ UNCHANGED <<rulesVars, runVars, testerSetup, overall_results, last_call,
                   scalingVars>>

NextK8sRun == RunNextK8sSuite \/ ReturnK8sReport

SpecK8sRun == InitK8sRun /\ [][NextK8sRun]_vars

\* C27: whatever the cluster answers and whether or not the client is
\* available, every suite of run_comprehensive_k8s_tests is recorded as
\* 'completed', a Kubernetes API failure being kept inside the suite's
\* results (the suite that caught the failure has results {'error': ...});
\* every report has failed_suites = 0 and
\* successful_suites = total_test_suites = 6.
C27_EveryK8sSuiteCompletes ==
    /\ \A i \in DOMAIN overall_results :
           /\ overall_results[i].suite = k8s_test_suites[i].name
           /\ overall_results[i].entry.status = "completed"
    /\ (last_call.operation # None /\ last_call.caught # None) =>
           /\ k8s_apps_v1
           /\ overall_results[Len(overall_results)].entry.results
                  = [error |-> last_call.caught]
    /\ report # NoReport =>
           /\ report.detailed_results = overall_results
           /\ report.k8s_test_execution_summary.failed_suites = 0
           /\ report.k8s_test_execution_summary.successful_suites = 6
           /\ report.k8s_test_execution_summary.total_test_suites = 6

\* a report of a run in which the first deployment listing and the
\* autoscaler listing failed, each with an error of its own, and the second
\* deployment listing listed a model
C27_WitnessApiFailuresSwallowed ==
    /\ report # NoReport
    /\ k8s_apps_v1
    /\ report.detailed_results[1].entry.results = [error |-> "(403) Reason: Forbidden"]
    /\ deployments_response.raised = None
    /\ report.detailed_results[2].entry.results["model_deployment_summary"]
           .deployment_coverage = "1/5"
    /\ report.detailed_results[6].entry.results =
           [error |-> "'AppsV1Api' object has no attribute 'list_namespaced_horizontal_pod_autoscaler'"]
    /\ report.k8s_test_execution_summary.successful_suites = 6
    /\ report.k8s_test_execution_summary.failed_suites = 0

====
